---- MODULE Spec2Model ----
(***************************************************************************)
(* Verification model of the FreqAI core of the trading bot:               *)
(*   - FreqaiDataKitchen.split_timerange (the sliding train/backtest       *)
(*     window planner), modelled statement by statement;                   *)
(*   - the prediction validity mask do_predict, as built by                *)
(*     filter_features and the apply-mode outlier stages, and the live     *)
(*     return path of IFreqaiModel.build_strategy_return_arrays.           *)
(* Timestamps are integer seconds, as in TimeRange.startts / stopts.       *)
(***************************************************************************)
EXTENDS Integers, Sequences, FiniteSets, TLC

\* data_kitchen.py: SECONDS_IN_DAY = 86400
SECONDS_IN_DAY == 86400

\* Longest window list the model builds; the loop guard stops there.
MaxWindows == 12

\* Span of the configured range, in quarter days, for the generic inputs.
MaxSpanQuarters == 12

\* Most rows in the dataframe handed to the prediction path.
MaxRows == 2

\* The clock advances at most this many half hours.
MaxTicks == 3

\* freqai_interface.py: self.CONV_WIDTH = self.freqai_info.get("conv_width", 2)
CONV_WIDTH == 2

\* data_kitchen.py: elapsed_time = (time - trained_timestamp) / 3600
SECONDS_IN_HOUR == 3600

VARIABLES
    tr,                             \* the parsed `tr` argument (full_timerange)
    config_timerange,               \* parsed self.config["timerange"]
    now,                            \* datetime.now() read when the stop is open
    train_split,                    \* train_period_days argument
    bt_split,                       \* backtest_period_days argument (a float)
    pc,                             \* position in split_timerange
    first,                          \* loop flag `first`
    timerange_train,                \* loop variable
    timerange_backtest,             \* loop variable
    tr_training_list_timerange,     \* returned list of training windows
    tr_backtesting_list_timerange,  \* returned list of backtest windows
    freqai_info,                    \* the "freqai" configuration, after __init__
    live,                           \* IFreqaiModel.live (dry/live run mode)
    svm_model,                      \* dk.svm_model is fitted (not None)
    DBSCAN_eps,                     \* dk.data['DBSCAN_eps'] is set (truthy)
    dataframe,                      \* the rows handed to the model by the strategy
    do_predict,                     \* dk.do_predict
    pred_df,                        \* predictions of the last call
    do_preds,                       \* validity mask returned by the last call
    model_return_values,            \* pair in dd.model_return_values
    time,                           \* wall clock, seconds
    trained_timestamp,              \* pair_dict[pair]["trained_timestamp"]
    branch,                         \* path the last call took
    expired,                        \* <<value>> returned by the last check_if_model_expired call
    data_dictionary,                \* dk.data_dictionary: the train and test tables, as row ids
    freqai_config,                  \* options the kitchen reads from the configuration
    pca,                            \* dk.pca is fitted (not None)
    avg_mean_dist,                  \* dk.data["avg_mean_dist"] is set
    DBSCAN_min_samples,             \* dk.data['DBSCAN_min_samples'] (0: unset)
    norm_bounds,                    \* dk.data[col + "_max"/"_min"] are set
    cycle,                          \* "train" until the kitchen is used for inference
    calls,                          \* kitchen methods run by the last operation, in order
    dropped_pts,                    \* <<rejected, total>> the detector fit just run has found
    distance_min,                   \* distance.min(axis=0) of the inference row
    mean_dist,                      \* dk.data["avg_mean_dist"], the number
    train_labels_column,            \* data_dictionary["train_labels"][item], one label column
    label_x,                        \* the label value followed through the round trip
    label_bounds,                   \* dk.data[label + "_min"/"_max"] (<<>>: unset)
    label_cell,                     \* the value as it stands: raw, normalized, denormalized
    unfiltered_df,                  \* the strategy's dataframe: column -> values by row
    constant_features_list,         \* dk.data['constant_features_list'] (<<>>: key absent)
    filtered_df,                    \* table returned by the training filter
    prediction_df,                  \* table returned by the prediction filter
    bt_dataframe,                   \* start_backtesting's dataframe: the "date" column
    bt_config,                      \* train period, backtest period and range stop
    train_it,                       \* windows of the zip the loop has processed
    model_files,                    \* <coin>_<trained_timestamp>_model.joblib files on disk
    full_df,                        \* dk.full_df, the appended predictions
    return_dataframe,               \* dk.return_dataframe (<<>>: not filled)
    bt_trained,                     \* windows this start_backtesting call has trained
    bt_run,                         \* start_backtesting calls made so far
    strategy_columns,               \* columns of the dataframe the strategy furnishes
    model_metadata,                 \* dk.data and feature list saved with the model
    dk_features,                    \* dk.training_features_list and dk.data's raw list
    reload_result,                  \* how the reload ended
    runmode,                        \* strategy.dp.runmode: "live" or "backtest"
    follow_mode,                    \* self.follow_mode
    live_retrain_hours,             \* freqai_config["live_retrain_hours"]
    scanning,                       \* self.scanning
    lock,                           \* self.lock: 0 when free, else the holding thread
    scan_threads,                   \* the start_scanning threads: position, pair index
    training_queue,                 \* tracked pairs, front first (front: priority 1)
    pair_dict,                      \* dd.pair_dict[pair]: trained_timestamp, as an age
    model_saved,                    \* the model pair_dict[pair] names is on disk
    fg,                             \* the strategy's thread inside start
    retrain_args,                   \* check_if_new_training_required: clock, argument, options
    retrain_result,                 \* <<value>> the call has returned
    fulltimerange_args,             \* create_fulltimerange: backtest_tr, backtest_period_days
    fulltimerange_result,           \* <<value>> the call has returned or raised
    strat_df,                       \* the strategy's dataframe in live mode, as candle numbers
    has_return_values,              \* pair in self.dd.model_return_values
    predicted_before,               \* candles the model was run on in earlier calls
    predicted_last,                 \* <<candles>> the model was run on in the last call
    kitchen,                        \* the FreqaiDataKitchen in use: per attribute, the cycle that wrote it
    cycle_no,                       \* train-or-predict cycles begun so far
    cycle_pc,                       \* run mode, and the path of the cycle under way
    windows_left,                   \* windows start_backtesting has still to go through
    predict_cycle,                  \* one predict call of a model class, step by step
    fit_input,                      \* training rows and options handed to a detector fit
    fit_outcome                     \* <<what the fit did>>

splitVars == <<tr, config_timerange, now, train_split, bt_split, pc, first,
               timerange_train, timerange_backtest,
               tr_training_list_timerange, tr_backtesting_list_timerange>>

predVars == <<freqai_info, live, svm_model, DBSCAN_eps, dataframe, do_predict,
              pred_df, do_preds, model_return_values, time, trained_timestamp,
              branch>>

expVars == <<expired>>

\* The state outside the window planner and the serving path.
dkVars == <<data_dictionary, freqai_config, pca, avg_mean_dist,
            DBSCAN_min_samples, norm_bounds, cycle, calls, dropped_pts>>

diVars == <<distance_min, mean_dist>>

normVars == <<train_labels_column, label_x, label_bounds, label_cell>>

ffVars == <<unfiltered_df, constant_features_list, filtered_df, prediction_df>>

btVars == <<bt_dataframe, bt_config, train_it, model_files, full_df,
            return_dataframe, bt_trained, bt_run>>

reloadVars == <<strategy_columns, model_metadata, dk_features, reload_result>>

liveVars == <<runmode, follow_mode, live_retrain_hours, scanning, lock,
              scan_threads, training_queue, pair_dict, model_saved, fg>>

retrainVars == <<retrain_args, retrain_result>>

ftrVars == <<fulltimerange_args, fulltimerange_result>>

histVars == <<strat_df, has_return_values, predicted_before, predicted_last>>

ctxVars == <<kitchen, cycle_no, cycle_pc, windows_left>>

stageVars == <<predict_cycle, fit_input, fit_outcome>>

rangeVars == <<retrainVars, ftrVars, histVars, ctxVars, stageVars>>

schedVars == <<btVars, reloadVars, liveVars, rangeVars>>

auxVars == <<expVars, dkVars, diVars, normVars, ffVars, schedVars>>

vars == <<splitVars, predVars, auxVars>>

\* No check_if_model_expired call has returned.
ExpIdle == expired = <<>>

\* No kitchen is open.
DkIdle ==
    /\ data_dictionary = [train_features |-> <<>>, train_labels |-> <<>>,
                          train_weights |-> <<>>, test_features |-> <<>>,
                          test_labels |-> <<>>, test_weights |-> <<>>]
    /\ freqai_config = [outlier_protection_percentage |-> 30, test_size |-> 0,
                        principal_component_analysis |-> FALSE]
    /\ pca = FALSE
    /\ avg_mean_dist = FALSE
    /\ DBSCAN_min_samples = 0
    /\ norm_bounds = FALSE
    /\ cycle = "idle"
    /\ calls = <<>>
    /\ dropped_pts = <<>>

\* No distance index is being computed.
DiIdle == distance_min = 0 /\ mean_dist = 0

\* No label is being normalized.
NormIdle ==
    /\ train_labels_column = <<>>
    /\ label_x = 0
    /\ label_bounds = <<>>
    /\ label_cell = <<>>

\* No dataframe is being filtered.
FfIdle ==
    /\ unfiltered_df = <<>>
    /\ constant_features_list = <<>>
    /\ filtered_df = <<>>
    /\ prediction_df = <<>>

\* No backtest is running.
BtIdle ==
    /\ bt_dataframe = <<>>
    /\ bt_config = <<>>
    /\ train_it = 0
    /\ model_files = {}
    /\ full_df = <<>>
    /\ return_dataframe = <<>>
    /\ bt_trained = {}
    /\ bt_run = 0

\* No model is being reloaded.
ReloadIdle ==
    /\ strategy_columns = <<>>
    /\ model_metadata = <<>>
    /\ dk_features = <<>>
    /\ reload_result = "none"

\* No strategy is being served.
LiveIdle ==
    /\ runmode = "none"
    /\ follow_mode = FALSE
    /\ live_retrain_hours = 0
    /\ scanning = FALSE
    /\ lock = 0
    /\ scan_threads = <<>>
    /\ training_queue = <<>>
    /\ pair_dict = <<>>
    /\ model_saved = <<>>
    /\ fg = <<>>

\* check_if_new_training_required has not been called.
RetrainIdle == retrain_args = <<>> /\ retrain_result = <<>>

\* create_fulltimerange has not been called.
FtrIdle == fulltimerange_args = <<>> /\ fulltimerange_result = <<>>

\* No live prediction has been asked for.
HistIdle ==
    /\ strat_df = <<>>
    /\ has_return_values = FALSE
    /\ predicted_before = {}
    /\ predicted_last = <<>>

\* No kitchen has been made.
CtxIdle ==
    /\ kitchen = <<>>
    /\ cycle_no = 0
    /\ cycle_pc = [mode |-> "none", at |-> "idle"]
    /\ windows_left = 0

\* No predict call is followed and no detector fit is under test.
StageIdle ==
    /\ predict_cycle = <<>>
    /\ fit_input = <<>>
    /\ fit_outcome = <<>>

RangeIdle == RetrainIdle /\ FtrIdle /\ HistIdle /\ CtxIdle /\ StageIdle

SchedIdle == BtIdle /\ ReloadIdle /\ LiveIdle /\ RangeIdle

AuxIdle == ExpIdle /\ DkIdle /\ DiIdle /\ NormIdle /\ FfIdle /\ SchedIdle

-----------------------------------------------------------------------------
(* Inputs of split_timerange *)

Day(n) == n * SECONDS_IN_DAY

\* 2022-01-01 00:00:00 UTC (timestamp 1640995200), the start used by the
\* repository's tests.
Jan01 == Day(18993)

\* train_split values: [isint] tells whether the Python object is an int,
\* [val] is its value (for a float, the value rounded toward zero).
TrainSplits ==
    [isint : {TRUE}, val : {-1, 0, 1, 2, 30, 100}]
        \cup [isint : {FALSE}, val : {1, 30}]

\* bt_split values as exact binary fractions num/den of a day (every one of
\* them is an exact IEEE double, and so is its product with 86400).
BtSplits ==
    { [num |-> 7, den |-> 1], [num |-> 1, den |-> 1], [num |-> 1, den |-> 2],
      [num |-> 1, den |-> 4], [num |-> 3, den |-> 2],
      [num |-> 1, den |-> 131072],      \* 0.66 s
      [num |-> 3, den |-> 131072],      \* 1.98 s
      [num |-> 5, den |-> 131072],      \* 3.30 s
      [num |-> 0, den |-> 1], [num |-> -1, den |-> 1] }

\* Offsets of the configured stop from the start of tr, in seconds.
SpanChoices ==
    { q * (SECONDS_IN_DAY \div 4) : q \in 1..MaxSpanQuarters }
        \cup { Day(90) }
        \cup { Day(d) + s : d \in {1, 2, 30}, s \in {-1, 1, 2, 3, 7} }

\* Stops of the tr argument itself: 2022-02-01 (tests) and 2022-04-01.
TrStops == { Jan01 + Day(31), Jan01 + Day(90) }

NowChoices == { Jan01 + Day(3) }

-----------------------------------------------------------------------------
(* Helpers of split_timerange *)

\* Python int(x) of the rational num/den, den > 0: truncation toward zero.
PyInt(num, den) ==
    IF num >= 0 THEN num \div den ELSE -((-num) \div den)

\* int(bt_period), bt_period = bt_split * SECONDS_IN_DAY
IntBtPeriod == PyInt(bt_split.num * SECONDS_IN_DAY, bt_split.den)

\* train_period_days = train_split * SECONDS_IN_DAY
TrainPeriodSeconds == train_split.val * SECONDS_IN_DAY

TrainSplitInvalid_NoTypeCheck == train_split.val < 1

\* if not isinstance(train_split, int) or train_split < 1: raise
TrainSplitInvalid == (~train_split.isint) \/ train_split.val < 1

\* if config_timerange.stopts == 0: config_timerange.stopts = int(now)
ResolvedConfigStop ==
    IF config_timerange.stopts = 0 THEN now ELSE config_timerange.stopts

NextTrainStart_Tumbling ==
    IF ~first THEN timerange_train.startts + TrainPeriodSeconds
              ELSE timerange_train.startts

\* if not first: timerange_train.startts += int(bt_period)
NextTrainStart ==
    IF ~first THEN timerange_train.startts + IntBtPeriod
              ELSE timerange_train.startts

ClampStop_NoClamp(stop) == stop

\* if timerange_backtest.stopts > config_timerange.stopts: clamp
ClampStop(stop) ==
    IF stop > config_timerange.stopts THEN config_timerange.stopts ELSE stop

BacktestStart_AtTrainStart(train) == train.startts

\* timerange_backtest.startts = timerange_train.stopts
BacktestStart(train) == train.stopts

\* The prediction path at rest (while split_timerange is examined).
PredIdle ==
    /\ freqai_info = [keras |-> FALSE, use_SVM_to_remove_outliers |-> FALSE,
                      DI_threshold |-> 0, use_DBSCAN_to_remove_outliers |-> FALSE,
                      expiration_hours |-> 0]
    /\ live = FALSE
    /\ svm_model = FALSE
    /\ DBSCAN_eps = FALSE
    /\ dataframe = <<>>
    /\ do_predict = <<>>
    /\ pred_df = <<>>
    /\ do_preds = <<>>
    /\ model_return_values = FALSE
    /\ time = 0
    /\ trained_timestamp = 0
    /\ branch = "none"

-----------------------------------------------------------------------------
(* split_timerange as a state machine *)

\* A plan that returns stays within MaxWindows windows; inputs whose loop
\* does not advance (int(bt_period) <= 0) are kept whatever their span.
Plannable(ts, bt, span) ==
    LET ibt == PyInt(bt.num * SECONDS_IN_DAY, bt.den)
    IN  \/ ibt <= 0
        \/ ~ts.isint
        \/ span - ts.val * SECONDS_IN_DAY <= ibt * MaxWindows

SplitInit ==
    /\ \E stop \in TrStops : tr = [startts |-> Jan01, stopts |-> stop]
    /\ now \in NowChoices
    /\ train_split \in TrainSplits
    /\ bt_split \in BtSplits
    /\ \E span \in SpanChoices \cup {0} :
          /\ config_timerange =
                [startts |-> Jan01,
                 stopts |-> IF span = 0 THEN 0 ELSE Jan01 + span]
          /\ Plannable(train_split, bt_split,
                       IF span = 0 THEN now - Jan01 ELSE span)
    /\ pc = "call"
    /\ first = TRUE
    /\ timerange_train = tr
    /\ timerange_backtest = tr
    /\ tr_training_list_timerange = <<>>
    /\ tr_backtesting_list_timerange = <<>>
    /\ PredIdle
    /\ AuxIdle

\* lines 423-426: the argument check raises OperationalException
SplitTimerangeRaise ==
    /\ pc = "call"
    /\ TrainSplitInvalid
    /\ pc' = "raised"
    /\ UNCHANGED <<tr, config_timerange, now, train_split, bt_split, first,
                   timerange_train, timerange_backtest,
                   tr_training_list_timerange, tr_backtesting_list_timerange>>
    /\ UNCHANGED <<predVars, auxVars>>

\* lines 427-443: periods, parsed ranges, open stop resolved, empty lists
SplitTimerangeSetup ==
    /\ pc = "call"
    /\ ~TrainSplitInvalid
    /\ config_timerange' = [config_timerange EXCEPT !.stopts = ResolvedConfigStop]
    /\ timerange_train' = tr
    /\ timerange_backtest' = tr
    /\ tr_training_list_timerange' = <<>>
    /\ tr_backtesting_list_timerange' = <<>>
    /\ first' = TRUE
    /\ pc' = "loop"
    /\ UNCHANGED <<tr, now, train_split, bt_split>>
    /\ UNCHANGED <<predVars, auxVars>>

\* lines 445-469: one pass of `while True`, up to the break test
SplitTimerangeLoop ==
    /\ pc = "loop"
    /\ Len(tr_training_list_timerange) < MaxWindows
    /\ LET trainStart == NextTrainStart
           train == [startts |-> trainStart,
                     stopts |-> trainStart + TrainPeriodSeconds]
           btStart == BacktestStart(train)
           bt == [startts |-> btStart,
                  stopts |-> ClampStop(btStart + IntBtPeriod)]
       IN  /\ timerange_train' = train
           /\ first' = FALSE
           /\ tr_training_list_timerange' =
                 Append(tr_training_list_timerange, train)
           /\ timerange_backtest' = bt
           /\ tr_backtesting_list_timerange' =
                 Append(tr_backtesting_list_timerange, bt)
           /\ pc' = IF bt.stopts = config_timerange.stopts
                       THEN "done" ELSE "loop"
    /\ UNCHANGED <<tr, config_timerange, now, train_split, bt_split>>
    /\ UNCHANGED <<predVars, auxVars>>

SplitNext ==
    \/ SplitTimerangeRaise
    \/ SplitTimerangeSetup
    \/ SplitTimerangeLoop

SplitSpec == SplitInit /\ [][SplitNext]_vars

\* The loop body always runs to its end: a pass that is enabled is taken.
SplitFairSpec == SplitSpec /\ WF_vars(SplitNext)

-----------------------------------------------------------------------------
(* Properties of split_timerange *)

trl == tr_training_list_timerange
btl == tr_backtesting_list_timerange

\* The arguments the contract calls valid.
ValidInput ==
    /\ train_split.isint /\ train_split.val >= 1
    /\ bt_split.num > 0
    /\ tr.startts < tr.stopts

Returned == pc = "done"

\* Smallest integer >= a / b, for b > 0.
CeilDiv(a, b) == -((-a) \div b)

\* Seconds between the end of the first training window and the configured stop.
BacktestSpan == config_timerange.stopts - tr.startts - TrainPeriodSeconds

\* Number of backtest windows that hold timestamp t (windows are half open,
\* as slice_dataframe cuts them: start <= date < stop).
Covering(t) ==
    Cardinality({ i \in 1..Len(btl) : btl[i].startts <= t /\ t < btl[i].stopts })

\* Timestamps at the edges of the returned backtest windows that lie in the
\* span from the first backtest start to the configured stop.
EdgeProbes ==
    { t \in UNION { { btl[i].startts, btl[i].startts + 1,
                      btl[i].stopts - 1, btl[i].stopts } : i \in 1..Len(btl) } :
        btl[1].startts <= t /\ t < config_timerange.stopts }

LoopState == <<timerange_train, timerange_backtest, first>>

\* C2: split_timerange terminates for every valid input, fractional backtest
\* periods included: the loop reaches a backtest window that stops at the
\* range stop and returns. Stated on finite runs: no pass of the loop on a
\* valid input leaves the loop where it was without returning.
C2_NoPassRepeats ==
    [][ (SplitTimerangeLoop /\ ValidInput) =>
            (pc' = "done" \/ LoopState' # LoopState) ]_vars

\* The same claim as a liveness property (under SplitFairSpec).
Terminates == ValidInput ~> Returned

\* Every valid input whose backtest period is at least one second returns.
TerminatesWhenAdvancing == (ValidInput /\ IntBtPeriod >= 1) ~> Returned

\* The model's list bound is met only by a loop that does not advance.
CapOnlyWhenStuck ==
    (pc = "loop" /\ Len(trl) = MaxWindows /\ train_split.isint)
        => IntBtPeriod <= 0

\* C3 as stated: both lists have the same length, which is
\* ceil((stop - start - train_period) / backtest_period), periods in seconds
\* (read here only on ranges that reach past the first training window).
C3_LengthAsStated ==
    (Returned /\ ValidInput /\ BacktestSpan > 0) =>
        /\ Len(trl) = Len(btl)
        /\ Len(btl) = CeilDiv(BacktestSpan * bt_split.den,
                              bt_split.num * SECONDS_IN_DAY)

\* The scenario of the tests: 2022-01-01 .. 2022-04-01, 30 days, 7 days.
Scenario ==
    /\ tr.startts = Jan01
    /\ config_timerange.stopts = Jan01 + Day(90)
    /\ train_split = [isint |-> TRUE, val |-> 30]
    /\ bt_split = [num |-> 7, den |-> 1]

\* C3 (amended): both returned lists have the same length; it is 1 when the
\* configured stop is not after the first training window, and otherwise
\* ceil((stop - start - train_period) / int(backtest_period)) with the
\* backtest period truncated to whole seconds; the scenario 2022-01-01 ..
\* 2022-04-01 with 30 and 7 days gives 9 pairs, the last stopping 2022-04-01.
C3_Length ==
    (Returned /\ ValidInput) =>
        /\ Len(trl) = Len(btl)
        /\ Len(btl) = IF BacktestSpan <= 0 THEN 1
                      ELSE CeilDiv(BacktestSpan, IntBtPeriod)
        /\ Scenario => (Len(btl) = 9 /\ btl[9].stopts = Jan01 + Day(90))

C3_Witness == Returned /\ Scenario /\ Len(trl) = 9

\* C4: whenever train_period_days is not an integer or is below 1, the call
\* raises and produces no window, whatever the other arguments are.
C4_InvalidTrainSplitRaises ==
    (pc # "call" /\ (~train_split.isint \/ train_split.val < 1)) =>
        /\ pc = "raised"
        /\ trl = <<>> /\ btl = <<>>

C4_Witness ==
    /\ pc = "raised"
    /\ ~train_split.isint /\ train_split.val >= 1
    /\ bt_split.num > 0

\* C5 as stated: every next training window starts exactly
\* backtest_period_days (as a fraction of a day) after the previous one.
C5_SlideAsStated ==
    (Returned /\ ValidInput) =>
        \A i \in 1..(Len(trl) - 1) :
            (trl[i + 1].startts - trl[i].startts) * bt_split.den
                = bt_split.num * SECONDS_IN_DAY

\* C5 (amended): the first training window starts at the range start, every
\* training window lasts train_period_days, every next training window
\* starts int(backtest_period_days * 86400) seconds after the previous one,
\* and backtest window i starts where training window i stops.
C5_TrainWindowsSlide ==
    (Returned /\ ValidInput) =>
        /\ trl[1].startts = tr.startts
        /\ \A i \in 1..Len(trl) :
              /\ trl[i].stopts - trl[i].startts = Day(train_split.val)
              /\ btl[i].startts = trl[i].stopts
        /\ \A i \in 1..(Len(trl) - 1) :
              trl[i + 1].startts = trl[i].startts + IntBtPeriod

C5_Witness ==
    /\ Returned /\ ValidInput
    /\ Len(trl) >= 3
    /\ IntBtPeriod * bt_split.den # bt_split.num * SECONDS_IN_DAY

\* C6 as stated: every backtest window but the last lasts exactly
\* backtest_period_days, and no backtest window stops after the stop of the
\* range passed as `tr` (read here only on ranges that reach past the first
\* training window).
C6_ClampAsStated ==
    (Returned /\ ValidInput /\ BacktestSpan > 0) =>
        /\ \A i \in 1..(Len(btl) - 1) :
              (btl[i].stopts - btl[i].startts) * bt_split.den
                  = bt_split.num * SECONDS_IN_DAY
        /\ \A i \in 1..Len(btl) : btl[i].stopts <= tr.stopts

\* C6 (amended): every backtest window but the last lasts
\* int(backtest_period_days * 86400) seconds, and no backtest window stops
\* after the stop of the configured timerange (self.config["timerange"]),
\* to which the final window is clamped.
C6_BacktestWindowsClamped ==
    ValidInput =>
        /\ \A i \in 1..(Len(btl) - 1) :
              btl[i].stopts - btl[i].startts = IntBtPeriod
        /\ \A i \in 1..Len(btl) : btl[i].stopts <= config_timerange.stopts

C6_Witness ==
    /\ Returned /\ ValidInput
    /\ Len(btl) >= 2
    /\ btl[Len(btl)].stopts - btl[Len(btl)].startts < IntBtPeriod
    /\ btl[Len(btl)].stopts > tr.stopts

\* C7: every returned training and backtest window has start < stop, also
\* when the range stops before the end of the first training window.
C7_WindowsNonEmpty ==
    (Returned /\ ValidInput) =>
        /\ \A i \in 1..Len(trl) : trl[i].startts < trl[i].stopts
        /\ \A i \in 1..Len(btl) : btl[i].startts < btl[i].stopts

-----------------------------------------------------------------------------
(* The prediction path: filter_features, the apply-mode outlier stages,   *)
(* predict, and the live / backtest callers                               *)

\* split_timerange at rest (while the prediction path is examined).
SplitIdle ==
    /\ tr = [startts |-> Jan01, stopts |-> Jan01 + Day(31)]
    /\ config_timerange = [startts |-> Jan01, stopts |-> Jan01 + Day(31)]
    /\ now = Jan01
    /\ train_split = [isint |-> TRUE, val |-> 1]
    /\ bt_split = [num |-> 1, den |-> 1]
    /\ pc = "idle"
    /\ first = TRUE
    /\ timerange_train = tr
    /\ timerange_backtest = tr
    /\ tr_training_list_timerange = <<>>
    /\ tr_backtesting_list_timerange = <<>>

\* Half an hour on the clock.
TickSeconds == SECONDS_IN_HOUR \div 2

\* IFreqaiModel.__init__: the DI threshold is switched off for Keras models.
InitDIThreshold(keras, threshold) ==
    IF keras /\ threshold # 0 THEN 0 ELSE threshold

\* The SVM stage has a fitted model only when training ran it (the option is
\* set and the model is no Keras model).
SvmStageRuns ==
    /\ freqai_info.use_SVM_to_remove_outliers
    /\ ~freqai_info.keras
    /\ svm_model

DiStageRuns == freqai_info.DI_threshold # 0

\* One inference row, by what each numerical stage finds in it:
\*   nan     a feature of the row is NaN or +-inf
\*   y_pred  svm_model.predict of the row (1 inlier, -1 outlier)
\*   DI_far  DI_values of the row is not below DI_threshold
\*   label   DBSCAN cluster label of the row (-1 noise)
\* A stage that does not run produces no outcome for the row.
Rows(svmRuns, diRuns, dbRuns) ==
    [nan : BOOLEAN,
     y_pred : IF svmRuns THEN {1, -1} ELSE {1},
     DI_far : IF diRuns THEN BOOLEAN ELSE {FALSE},
     label : IF dbRuns THEN {-1, 0} ELSE {0}]

SeqsUpTo(S, n) == UNION { [1..k -> S] : k \in 1..n }

Ones(n) == [i \in 1..n |-> 1]

LastRows_Whole(rows, n) == rows

\* dataframe.iloc[-n:]
LastRows(rows, n) ==
    IF Len(rows) <= n THEN rows
    ELSE [i \in 1..n |-> rows[Len(rows) - n + i]]

\* filter_features(training_filter=False): do_predict is 0 on a row that
\* holds a NaN (inf is turned into NaN first) and 1 on every other row.
FilterFeatures(rows) ==
    [i \in 1..Len(rows) |-> IF rows[i].nan THEN 0 ELSE 1]

CombineStage_NoDecrement(dp, i, verdict) == dp[i] + verdict

\* self.do_predict += do_predict; self.do_predict -= 1
CombineStage(dp, i, verdict) == dp[i] + verdict - 1

\* use_SVM_to_remove_outliers(predict=True)
UseSVM(dp, rows) ==
    IF freqai_info.keras THEN Ones(Len(rows))
    ELSE IF ~svm_model THEN dp
    ELSE [i \in 1..Len(rows) |->
            CombineStage(dp, i, IF rows[i].y_pred = -1 THEN 0 ELSE rows[i].y_pred)]

\* check_if_pred_in_training_spaces
CheckIfPredInTrainingSpaces(dp, rows) ==
    [i \in 1..Len(rows) |->
        CombineStage(dp, i, IF ~rows[i].DI_far THEN 1 ELSE 0)]

UseDBSCAN_NoEpsTest(dp, rows) ==
    [i \in 1..Len(rows) |->
        CombineStage(dp, i, IF rows[i].label = -1 THEN 0 ELSE 1)]

\* use_DBSCAN_to_remove_outliers(predict=True)
UseDBSCAN(dp, rows) ==
    IF ~DBSCAN_eps THEN dp
    ELSE [i \in 1..Len(rows) |->
            CombineStage(dp, i, IF rows[i].label = -1 THEN 0 ELSE 1)]

\* data_cleaning_predict on do_predict: the SVM stage when
\* use_SVM_to_remove_outliers is set, then the distance index when
\* DI_threshold is set (pca_transform leaves do_predict alone). The method
\* has no DBSCAN stage.
DataCleaningPredict(dp, rows) ==
    LET a == IF freqai_info.use_SVM_to_remove_outliers THEN UseSVM(dp, rows) ELSE dp
    IN  IF freqai_info.DI_threshold # 0
            THEN CheckIfPredInTrainingSpaces(a, rows) ELSE a

\* predict: filter_features, then data_cleaning_predict; returns dk.do_predict
Predict(rows) == DataCleaningPredict(FilterFeatures(rows), rows)

\* The predictions of the model for n rows (opaque model output).
ModelOutput(n) == [i \in 1..n |-> "model"]

\* DataFrame(np.zeros((2, len(dk.label_list))))
ExpiredPredictions == <<"zero", "zero">>

ExpiredDoPreds_Ones == <<1, 1>>

\* do_preds = np.ones(2) * 2
ExpiredDoPreds == <<2, 2>>

CheckIfModelExpired_NoZeroTest ==
    (time - trained_timestamp) > freqai_info.expiration_hours * SECONDS_IN_HOUR

\* check_if_model_expired(trained_timestamp)
CheckIfModelExpired ==
    IF freqai_info.expiration_hours > 0
        THEN (time - trained_timestamp) > freqai_info.expiration_hours * SECONDS_IN_HOUR
        ELSE FALSE

\* check_if_new_training_required: the retrain decision, live_retrain_hours
\* left at its default of 0.
RetrainDue ==
    IF trained_timestamp # 0 THEN (time - trained_timestamp) > 0 ELSE TRUE

PredictInit ==
    /\ SplitIdle
    /\ AuxIdle
    /\ \E keras \in BOOLEAN, svm \in BOOLEAN, db \in BOOLEAN,
          di \in {0, 1}, exp \in {0, 1} :
          freqai_info = [keras |-> keras,
                         use_SVM_to_remove_outliers |-> svm,
                         DI_threshold |-> InitDIThreshold(keras, di),
                         use_DBSCAN_to_remove_outliers |-> db,
                         expiration_hours |-> exp]
    /\ live \in BOOLEAN
    /\ svm_model \in BOOLEAN
    /\ svm_model => (freqai_info.use_SVM_to_remove_outliers /\ ~freqai_info.keras)
    /\ DBSCAN_eps \in BOOLEAN
    /\ DBSCAN_eps => freqai_info.use_DBSCAN_to_remove_outliers
    /\ dataframe \in SeqsUpTo(Rows(SvmStageRuns, DiStageRuns, FALSE),
                              MaxRows)
    /\ do_predict = <<>>
    /\ pred_df = <<>>
    /\ do_preds = <<>>
    /\ model_return_values = FALSE
    /\ time = Jan01
    /\ trained_timestamp = Jan01
    /\ branch = "none"

\* build_strategy_return_arrays, no history yet for the pair: predict on the
\* whole dataframe and store the initial return values.
BuildFirstPredictions ==
    /\ live
    /\ ~model_return_values
    /\ do_predict' = Predict(dataframe)
    /\ pred_df' = ModelOutput(Len(dataframe))
    /\ do_preds' = do_predict'
    /\ model_return_values' = TRUE
    /\ branch' = IF CheckIfModelExpired THEN "first_expired" ELSE "first"
    /\ UNCHANGED <<freqai_info, live, svm_model, DBSCAN_eps, dataframe, time,
                   trained_timestamp>>
    /\ UNCHANGED <<splitVars, auxVars>>

\* build_strategy_return_arrays, history present and the model expired
BuildExpiredPredictions ==
    /\ live
    /\ model_return_values
    /\ CheckIfModelExpired
    /\ pred_df' = ExpiredPredictions
    /\ do_preds' = ExpiredDoPreds
    /\ do_predict' = <<>>
    /\ branch' = "expired"
    /\ UNCHANGED <<freqai_info, live, svm_model, DBSCAN_eps, dataframe,
                   model_return_values, time, trained_timestamp>>
    /\ UNCHANGED <<splitVars, auxVars>>

\* build_strategy_return_arrays, history present and the model current:
\* predict on the last CONV_WIDTH rows only.
BuildRecentPredictions ==
    /\ live
    /\ model_return_values
    /\ ~CheckIfModelExpired
    /\ LET rows == LastRows(dataframe, CONV_WIDTH)
       IN  /\ do_predict' = Predict(rows)
           /\ pred_df' = ModelOutput(Len(rows))
    /\ do_preds' = do_predict'
    /\ branch' = "recent"
    /\ UNCHANGED <<freqai_info, live, svm_model, DBSCAN_eps, dataframe,
                   model_return_values, time, trained_timestamp>>
    /\ UNCHANGED <<splitVars, auxVars>>

\* start_backtesting: predict(dataframe_backtest, dk) for one window
BacktestPredict ==
    /\ ~live
    /\ do_predict' = Predict(dataframe)
    /\ pred_df' = ModelOutput(Len(dataframe))
    /\ do_preds' = do_predict'
    /\ branch' = "backtest"
    /\ UNCHANGED <<freqai_info, live, svm_model, DBSCAN_eps, dataframe,
                   model_return_values, time, trained_timestamp>>
    /\ UNCHANGED <<splitVars, auxVars>>

\* The clock advances.
Tick ==
    /\ time < Jan01 + MaxTicks * TickSeconds
    /\ time' = time + TickSeconds
    /\ UNCHANGED <<freqai_info, live, svm_model, DBSCAN_eps, dataframe,
                   do_predict, pred_df, do_preds, model_return_values,
                   trained_timestamp, branch>>
    /\ UNCHANGED <<splitVars, auxVars>>

\* start_scanning / train_model_in_series: a due retrain stamps the model
\* with the stop of the new training range, int(time).
TrainModelInSeries ==
    /\ live
    /\ RetrainDue
    /\ trained_timestamp' = time
    /\ UNCHANGED <<freqai_info, live, svm_model, DBSCAN_eps, dataframe,
                   do_predict, pred_df, do_preds, model_return_values, time,
                   branch>>
    /\ UNCHANGED <<splitVars, auxVars>>

PredictNext ==
    \/ BuildFirstPredictions
    \/ BuildExpiredPredictions
    \/ BuildRecentPredictions
    \/ BacktestPredict
    \/ Tick
    \/ TrainModelInSeries

PredictSpec == PredictInit /\ [][PredictNext]_vars

-----------------------------------------------------------------------------
(* Properties of the prediction path *)

\* The rows the last call predicted on.
PredictedRows ==
    IF branch = "recent" THEN LastRows(dataframe, CONV_WIDTH) ELSE dataframe

\* A stage rejected the row: it holds a NaN/inf, or an enabled detector
\* flagged it.
Rejected(row) ==
    \/ row.nan
    \/ freqai_info.use_SVM_to_remove_outliers /\ row.y_pred = -1
    \/ freqai_info.DI_threshold # 0 /\ row.DI_far

\* C8: every row returned by the predict path or by the expired-model path
\* carries do_predict in {0, 1, 2}; it is never negative, whatever stages
\* reject the row.
C8_DoPredictInRange ==
    \A i \in 1..Len(do_preds) : do_preds[i] \in {0, 1, 2}

\* C9: for a model that is not expired, a row comes back with do_predict = 1
\* exactly when no enabled stage rejected it.
C9_OneIffNoRejection ==
    (branch \in {"first", "recent", "backtest"}) =>
        \A i \in 1..Len(do_preds) :
            (do_preds[i] = 1) <=> ~Rejected(PredictedRows[i])

\* Without the Keras switch the mask is 1 exactly on the rows no stage rejects.
OneIffNoRejectionNonKeras ==
    (branch \in {"first", "recent", "backtest"} /\ ~freqai_info.keras) =>
        \A i \in 1..Len(do_preds) :
            (do_preds[i] = 1) <=> ~Rejected(PredictedRows[i])

\* A call of build_strategy_return_arrays, by any of its three paths.
BuildStrategyReturnArrays ==
    \/ BuildFirstPredictions
    \/ BuildExpiredPredictions
    \/ BuildRecentPredictions

-----------------------------------------------------------------------------
(* check_if_model_expired as a function of the model's age *)

\* Largest expiration_hours the configuration is drawn from.
MaxExpirationHours == 2

\* The model is at most this many half hours old when the clock starts.
MaxAgeTicks == 4

ExpiryInit ==
    /\ SplitIdle
    /\ \E exp \in 0..MaxExpirationHours :
          freqai_info = [keras |-> FALSE, use_SVM_to_remove_outliers |-> FALSE,
                         DI_threshold |-> 0,
                         use_DBSCAN_to_remove_outliers |-> FALSE,
                         expiration_hours |-> exp]
    /\ live = FALSE
    /\ svm_model = FALSE
    /\ DBSCAN_eps = FALSE
    /\ dataframe = <<>>
    /\ do_predict = <<>>
    /\ pred_df = <<>>
    /\ do_preds = <<>>
    /\ model_return_values = FALSE
    /\ time = Jan01
    /\ \E k \in 0..MaxAgeTicks : trained_timestamp = Jan01 - k * TickSeconds
    /\ branch = "none"
    /\ expired = <<>>
    /\ DkIdle /\ DiIdle /\ NormIdle /\ FfIdle /\ SchedIdle

\* dk.check_if_model_expired(trained_timestamp), called at the current time
CallCheckIfModelExpired ==
    /\ expired' = <<CheckIfModelExpired>>
    /\ UNCHANGED <<splitVars, schedVars, predVars, dkVars, diVars, normVars, ffVars>>

ExpiryNext ==
    \/ Tick
    \/ CallCheckIfModelExpired

ExpirySpec == ExpiryInit /\ [][ExpiryNext]_vars

\* Age of the model in seconds.
ModelAge == time - trained_timestamp

\* C11: a call of check_if_model_expired returns true exactly when
\* expiration_hours is positive and the model is more than expiration_hours
\* hours old; with expiration_hours = 0 it returns false at every age.
C11_ExpiredExactlyWhenTooOld ==
    [][CallCheckIfModelExpired =>
        /\ expired' = << /\ freqai_info.expiration_hours > 0
                        /\ ModelAge > freqai_info.expiration_hours * SECONDS_IN_HOUR >>
        /\ (freqai_info.expiration_hours = 0 => expired' = <<FALSE>>)]_vars

\* The test's case: a model two hours old, expiration_hours = 1, found
\* expired.
C11_Witness ==
    /\ expired = <<TRUE>>
    /\ freqai_info.expiration_hours = 1
    /\ ModelAge = 2 * SECONDS_IN_HOUR

-----------------------------------------------------------------------------
(* The kitchen's outlier pipeline over one training cycle: the fit-mode     *)
(* stages on the training tables, then the apply-mode stages on do_predict  *)

\* Most rows of the training tables.
MaxTrainRows == 4

\* Rows of the test tables when test_size is not 0.
MaxTestRows == 1

\* Most rows of one inference call on the kitchen.
MaxApplyRows == 1

\* The apply-mode stages are examined until a row has been rejected this
\* many times over.
MaxRejections == 1

\* outlier_protection_percentage of the configuration: half the rows, so
\* that a detector can find less, as much and more.
ProtectionChoices == {50}

\* no_prev_pts arguments of remove_beginning_points_from_data_dict
NoPrevPtsChoices == {1, 2}

Ids(n) == [i \in 1..n |-> i]

\* table[mask]: the rows of the table at the positions the mask keeps
RECURSIVE SelectRows(_, _)
SelectRows(table, keep) ==
    IF table = <<>> THEN <<>>
    ELSE LET n == Len(table)
         IN  SelectRows(SubSeq(table, 1, n - 1), keep)
                \o (IF keep[n] THEN <<table[n]>> ELSE <<>>)

\* table[no_prev_pts:]
DropFirst(table, no_prev_pts) ==
    IF no_prev_pts >= Len(table) THEN <<>>
    ELSE SubSeq(table, no_prev_pts + 1, Len(table))

\* Number of positions a detector's verdict marks with the value v.
CountOf(verdict, v) == Cardinality({i \in DOMAIN verdict : verdict[i] = v})

GetOutlierPercentage_AlwaysZero(dropped, total) == 0

\* get_outlier_percentage(dropped_pts), as a multiple of 1/total: the
\* percentage when it is not below outlier_protection_percentage, else 0.0
GetOutlierPercentage(dropped, total) ==
    IF dropped * 100 >= freqai_config.outlier_protection_percentage * total
        THEN dropped * 100
        ELSE 0

\* The training tables after the SVM fit has dropped the rows it rejects.
SVMTrainTables_WeightsKept(y_pred) ==
    LET keep == [i \in DOMAIN y_pred |-> y_pred[i] = 1]
    IN  [data_dictionary EXCEPT
            !.train_features = SelectRows(@, keep),
            !.train_labels = SelectRows(@, keep)]

SVMTrainTables(y_pred) ==
    LET keep == [i \in DOMAIN y_pred |-> y_pred[i] = 1]
    IN  [data_dictionary EXCEPT
            !.train_features = SelectRows(@, keep),
            !.train_labels = SelectRows(@, keep),
            !.train_weights = SelectRows(@, keep)]

\* "same for test data", when test_size is not 0
SVMTestTables(dd, y_test) ==
    LET keep == [i \in DOMAIN y_test |-> y_test[i] = 1]
    IN  IF freqai_config.test_size # 0
            THEN [dd EXCEPT
                    !.test_features = SelectRows(@, keep),
                    !.test_labels = SelectRows(@, keep),
                    !.test_weights = SelectRows(@, keep)]
            ELSE dd

\* The training tables after the DBSCAN fit has dropped the noise rows.
DBSCANTrainTables(labels) ==
    LET keep == [i \in DOMAIN labels |-> labels[i] # -1]
    IN  [data_dictionary EXCEPT
            !.train_features = SelectRows(@, keep),
            !.train_labels = SelectRows(@, keep),
            !.train_weights = SelectRows(@, keep)]

\* MinPts = int(len(train_features.index) * 0.25)
MinPts == PyInt(Len(data_dictionary.train_features), 4)

KitchenInit ==
    /\ SplitIdle
    /\ SchedIdle /\ ExpIdle /\ DiIdle /\ NormIdle /\ FfIdle
    /\ \E keras \in BOOLEAN :
          freqai_info = [keras |-> keras, use_SVM_to_remove_outliers |-> FALSE,
                         DI_threshold |-> 0,
                         use_DBSCAN_to_remove_outliers |-> FALSE,
                         expiration_hours |-> 0]
    /\ live = FALSE
    /\ svm_model = FALSE
    /\ DBSCAN_eps = FALSE
    /\ dataframe = <<>>
    /\ do_predict = <<>>
    /\ pred_df = <<>>
    /\ do_preds = <<>>
    /\ model_return_values = FALSE
    /\ time = 0
    /\ trained_timestamp = 0
    /\ branch = "none"
    /\ \E n \in 1..MaxTrainRows, test_size \in {0, MaxTestRows},
          prot \in ProtectionChoices :
          /\ data_dictionary =
                [train_features |-> Ids(n), train_labels |-> Ids(n),
                 train_weights |-> Ids(n), test_features |-> Ids(test_size),
                 test_labels |-> Ids(test_size), test_weights |-> Ids(test_size)]
          /\ freqai_config = [outlier_protection_percentage |-> prot,
                              test_size |-> test_size,
                              principal_component_analysis |-> FALSE]
    /\ pca = FALSE
    /\ avg_mean_dist = FALSE
    /\ DBSCAN_min_samples = 0
    /\ norm_bounds = FALSE
    /\ cycle = "train"
    /\ calls = <<>>
    /\ dropped_pts = <<>>

\* What no kitchen method touches.
KitchenFrame ==
    UNCHANGED <<splitVars, schedVars, expVars, diVars, normVars, ffVars,
                freqai_info, live, dataframe, pred_df, do_preds,
                model_return_values, time, trained_timestamp, branch,
                freqai_config>>

\* The verdicts a detector can return on a table.
Verdicts(table, values) == [1..Len(table) -> values]

\* What use_SVM_to_remove_outliers(predict=False) does to the model and the
\* tables: nothing for a Keras model; else the fitted model is cleared when
\* too many rows are outliers, and kept, with the outliers dropped, when not.
SVMFitEffect(y_pred, y_test) ==
    IF freqai_info.keras
        THEN UNCHANGED <<svm_model, data_dictionary>>
        ELSE IF GetOutlierPercentage(CountOf(y_pred, -1), Len(y_pred)) # 0
                THEN /\ svm_model' = FALSE
                     /\ UNCHANGED data_dictionary
                ELSE /\ svm_model' = TRUE
                     /\ data_dictionary' =
                           SVMTestTables(SVMTrainTables(y_pred), y_test)

\* use_SVM_to_remove_outliers(predict=False), the fitted model predicting
\* y_pred on the training rows and y_test on the test rows
UseSVMFitWith(y_pred, y_test) ==
    /\ cycle = "train"
    /\ Len(data_dictionary.train_features) >= 1
    /\ calls' = <<"use_SVM_to_remove_outliers">>
    /\ SVMFitEffect(y_pred, y_test)
    /\ dropped_pts' = IF freqai_info.keras THEN <<>>
                      ELSE <<CountOf(y_pred, -1), Len(y_pred)>>
    /\ UNCHANGED <<DBSCAN_eps, do_predict, pca, avg_mean_dist,
                   DBSCAN_min_samples, norm_bounds, cycle>>
    /\ KitchenFrame

UseSVMFit ==
    \E y_pred \in Verdicts(data_dictionary.train_features, {1, -1}),
       y_test \in Verdicts(data_dictionary.test_features, {1, -1}) :
       UseSVMFitWith(y_pred, y_test)

\* use_DBSCAN_to_remove_outliers(predict=False); NearestNeighbors needs
\* MinPts >= 1.
UseDBSCANFitWith(labels) ==
    /\ cycle = "train"
    /\ MinPts >= 1
    /\ calls' = <<"use_DBSCAN_to_remove_outliers">>
    /\ DBSCAN_min_samples' = MinPts
    /\ dropped_pts' = <<CountOf(labels, -1), Len(labels)>>
    /\ IF GetOutlierPercentage(CountOf(labels, -1), Len(labels)) # 0
          THEN /\ DBSCAN_eps' = FALSE
               /\ UNCHANGED data_dictionary
          ELSE /\ DBSCAN_eps' = TRUE
               /\ data_dictionary' = DBSCANTrainTables(labels)
    /\ UNCHANGED <<svm_model, do_predict, pca, avg_mean_dist, norm_bounds, cycle>>
    /\ KitchenFrame

UseDBSCANFit ==
    \E labels \in Verdicts(data_dictionary.train_features, {-1, 0}) :
       UseDBSCANFitWith(labels)

\* remove_beginning_points_from_data_dict(set_, no_prev_pts)
RemoveBeginningPointsFromDataDict ==
    /\ cycle = "train"
    /\ calls' = <<"remove_beginning_points_from_data_dict">>
    /\ \E no_prev_pts \in NoPrevPtsChoices :
          \/ data_dictionary' =
                [data_dictionary EXCEPT
                    !.train_weights = DropFirst(@, no_prev_pts),
                    !.train_features = DropFirst(@, no_prev_pts),
                    !.train_labels = DropFirst(@, no_prev_pts)]
          \/ data_dictionary' =
                [data_dictionary EXCEPT
                    !.test_weights = DropFirst(@, no_prev_pts),
                    !.test_features = DropFirst(@, no_prev_pts),
                    !.test_labels = DropFirst(@, no_prev_pts)]
    /\ UNCHANGED <<svm_model, DBSCAN_eps, do_predict, pca, avg_mean_dist,
                   DBSCAN_min_samples, norm_bounds, cycle>>
    /\ dropped_pts' = <<>>
    /\ KitchenFrame

\* principal_component_analysis: fits the transform on the training features,
\* replaces their columns (the rows stay) and stores the bounds of the
\* components.
PrincipalComponentAnalysis ==
    /\ cycle = "train"
    /\ Len(data_dictionary.train_features) >= 1
    /\ calls' = <<"principal_component_analysis">>
    /\ pca' = TRUE
    /\ norm_bounds' = TRUE
    /\ UNCHANGED <<svm_model, DBSCAN_eps, do_predict, data_dictionary,
                   avg_mean_dist, DBSCAN_min_samples, cycle>>
    /\ dropped_pts' = <<>>
    /\ KitchenFrame

\* normalize_data: stores the min and max of every training column
NormalizeData ==
    /\ cycle = "train"
    /\ Len(data_dictionary.train_features) >= 1
    /\ calls' = <<"normalize_data">>
    /\ norm_bounds' = TRUE
    /\ UNCHANGED <<svm_model, DBSCAN_eps, do_predict, data_dictionary, pca,
                   avg_mean_dist, DBSCAN_min_samples, cycle>>
    /\ dropped_pts' = <<>>
    /\ KitchenFrame

\* dk.data["avg_mean_dist"] = dk.compute_distances()
ComputeDistances ==
    /\ cycle = "train"
    /\ Len(data_dictionary.train_features) >= 2
    /\ calls' = <<"compute_distances">>
    /\ avg_mean_dist' = TRUE
    /\ UNCHANGED <<svm_model, DBSCAN_eps, do_predict, data_dictionary, pca,
                   DBSCAN_min_samples, norm_bounds, cycle>>
    /\ dropped_pts' = <<>>
    /\ KitchenFrame

KitchenFitted_DistancesRecomputed ==
    /\ UNCHANGED <<svm_model, DBSCAN_eps, data_dictionary, pca,
                   DBSCAN_min_samples, norm_bounds>>
    /\ avg_mean_dist' = FALSE
    /\ dropped_pts' = <<>>

\* The fitted state and the tables, which the apply-mode methods read.
KitchenFitted ==
    /\ UNCHANGED <<svm_model, DBSCAN_eps, data_dictionary, pca, avg_mean_dist,
                   DBSCAN_min_samples, norm_bounds>>
    /\ dropped_pts' = <<>>

\* The rows a stage sees: filter_features has replaced every NaN by 0.
StageRows(svmRuns, diRuns, dbRuns) ==
    {r \in Rows(svmRuns, diRuns, dbRuns) : ~r.nan}

\* A row can still be rejected within the examined range.
WithinRejections == \A i \in DOMAIN do_predict : do_predict[i] > -MaxRejections

\* filter_features(training_filter=False) on the rows of an inference call
FilterFeaturesPredict ==
    /\ \E rows \in SeqsUpTo(Rows(FALSE, FALSE, FALSE), MaxApplyRows) :
          do_predict' = FilterFeatures(rows)
    /\ cycle' = "inference"
    /\ calls' = <<"filter_features">>
    /\ dropped_pts' = <<>>
    /\ UNCHANGED <<svm_model, DBSCAN_eps, data_dictionary, pca, avg_mean_dist,
                   DBSCAN_min_samples, norm_bounds>>
    /\ KitchenFrame

\* pca_transform(filtered_dataframe)
PcaTransform ==
    /\ cycle = "inference"
    /\ pca
    /\ norm_bounds
    /\ calls' = <<"pca_transform">>
    /\ UNCHANGED <<do_predict, cycle>>
    /\ KitchenFitted
    /\ KitchenFrame

\* normalize_data_from_metadata(df) on the inference rows
NormalizeDataFromMetadata ==
    /\ cycle = "inference"
    /\ norm_bounds
    /\ calls' = <<"normalize_data_from_metadata">>
    /\ UNCHANGED <<do_predict, cycle>>
    /\ KitchenFitted
    /\ KitchenFrame

\* use_SVM_to_remove_outliers(predict=True)
UseSVMPredict ==
    /\ cycle = "inference"
    /\ WithinRejections
    /\ calls' = <<"use_SVM_to_remove_outliers">>
    /\ \E rows \in [1..Len(do_predict) -> StageRows(TRUE, FALSE, FALSE)] :
          do_predict' = UseSVM(do_predict, rows)
    /\ UNCHANGED cycle
    /\ KitchenFitted
    /\ KitchenFrame

\* use_DBSCAN_to_remove_outliers(predict=True); data['DBSCAN_eps'] exists
\* once the fit has run.
UseDBSCANPredict ==
    /\ cycle = "inference"
    /\ DBSCAN_min_samples # 0
    /\ WithinRejections
    /\ calls' = <<"use_DBSCAN_to_remove_outliers">>
    /\ \E rows \in [1..Len(do_predict) -> StageRows(FALSE, FALSE, TRUE)] :
          do_predict' = UseDBSCAN(do_predict, rows)
    /\ UNCHANGED cycle
    /\ KitchenFitted
    /\ KitchenFrame

\* check_if_pred_in_training_spaces; data["avg_mean_dist"] exists once
\* compute_distances has run.
CheckIfPredInTrainingSpacesPredict ==
    /\ cycle = "inference"
    /\ avg_mean_dist
    /\ WithinRejections
    /\ calls' = <<"check_if_pred_in_training_spaces">>
    /\ \E rows \in [1..Len(do_predict) -> StageRows(FALSE, TRUE, FALSE)] :
          do_predict' = CheckIfPredInTrainingSpaces(do_predict, rows)
    /\ UNCHANGED cycle
    /\ KitchenFitted
    /\ KitchenFrame

KitchenNext ==
    \/ UseSVMFit
    \/ UseDBSCANFit
    \/ RemoveBeginningPointsFromDataDict
    \/ PrincipalComponentAnalysis
    \/ NormalizeData
    \/ ComputeDistances
    \/ FilterFeaturesPredict
    \/ PcaTransform
    \/ NormalizeDataFromMetadata
    \/ UseSVMPredict
    \/ UseDBSCANPredict
    \/ CheckIfPredInTrainingSpacesPredict

KitchenSpec == KitchenInit /\ [][KitchenNext]_vars

\* The kitchen keeps its tables as sequences and its marks in range.
KitchenTypeOK ==
    /\ cycle \in {"train", "inference"}
    /\ Len(do_predict) <= MaxApplyRows
    /\ Len(data_dictionary.train_features) <= MaxTrainRows

-----------------------------------------------------------------------------
(* Properties of the outlier pipeline *)

\* The three training tables.
TrainTables ==
    <<data_dictionary.train_features, data_dictionary.train_labels,
      data_dictionary.train_weights>>

\* A detector fit has just run and has found dropped_pts.
DetectorFitRan == dropped_pts # <<>>

\* The detector found more than outlier_protection_percentage of the rows to
\* be outliers.
FoundAboveProtection ==
    /\ DetectorFitRan
    /\ dropped_pts[1] * 100 >
          freqai_config.outlier_protection_percentage * dropped_pts[2]

\* The detector found exactly outlier_protection_percentage of the rows.
FoundAtProtection ==
    /\ DetectorFitRan
    /\ dropped_pts[1] * 100 =
          freqai_config.outlier_protection_percentage * dropped_pts[2]

\* The detector whose fit has just run is switched off for the cycle.
DetectorDisabled ==
    IF calls = <<"use_SVM_to_remove_outliers">> THEN ~svm_model ELSE ~DBSCAN_eps

\* C12: when the fit of a detector (SVM or DBSCAN) finds a rejection
\* fraction above outlier_protection_percentage, the training features,
\* labels and weights after the stage are the ones before it.
C12_FailOpenKeepsTables ==
    [][FoundAboveProtection' => TrainTables' = TrainTables]_vars

\* A DBSCAN fit on four rows has found three of them to be noise.
C12_Witness ==
    /\ FoundAboveProtection
    /\ calls = <<"use_DBSCAN_to_remove_outliers">>
    /\ dropped_pts = <<3, 4>>
    /\ Len(data_dictionary.train_features) = 4

\* C13: a detector is switched off by its fit exactly when the percentage it
\* would reject is more than outlier_protection_percentage; at or below it
\* the detector stays on and the rejected rows are dropped.
C13_DisabledExactlyAbove ==
    [][DetectorFitRan' =>
        /\ DetectorDisabled' <=> FoundAboveProtection'
        /\ ~FoundAboveProtection' =>
              Len(data_dictionary.train_features') =
                  dropped_pts'[2] - dropped_pts'[1]]_vars

\* The detector is switched off exactly when the percentage is not below
\* outlier_protection_percentage (and not zero).
DisabledFromProtectionOn ==
    [][DetectorFitRan' =>
        /\ DetectorDisabled' <=>
              (FoundAboveProtection' \/ (FoundAtProtection' /\ dropped_pts'[1] > 0))
        /\ ~DetectorDisabled' =>
              Len(data_dictionary.train_features') =
                  dropped_pts'[2] - dropped_pts'[1]]_vars

\* C14: once the fit of a detector has failed open (SVM model cleared,
\* DBSCAN eps set to 0), the apply mode of that detector leaves do_predict
\* as it is on every inference row.
C14_DisabledDetectorRejectsNothing ==
    [][/\ (/\ cycle = "inference"
           /\ calls' = <<"use_SVM_to_remove_outliers">>
           /\ ~freqai_info.keras
           /\ ~svm_model) => do_predict' = do_predict
       /\ (/\ cycle = "inference"
           /\ calls' = <<"use_DBSCAN_to_remove_outliers">>
           /\ DBSCAN_min_samples # 0
           /\ ~DBSCAN_eps) => do_predict' = do_predict]_vars

\* The DBSCAN fit failed open, and its apply mode has run on a row that
\* filter_features accepted.
C14_Witness ==
    /\ cycle = "inference"
    /\ calls = <<"use_DBSCAN_to_remove_outliers">>
    /\ DBSCAN_min_samples # 0
    /\ ~DBSCAN_eps
    /\ do_predict = <<1>>

\* C15: after every fit-mode stage that drops training rows (SVM fit, DBSCAN
\* fit, removal of the beginning points) the training features, labels and
\* weights hold the same rows in the same order.
C15_TrainTablesAligned ==
    /\ data_dictionary.train_features = data_dictionary.train_labels
    /\ data_dictionary.train_features = data_dictionary.train_weights

\* The SVM fit has dropped at least one of the training rows.
C15_Witness ==
    /\ calls = <<"use_SVM_to_remove_outliers">>
    /\ svm_model
    /\ DetectorFitRan
    /\ dropped_pts[1] >= 1
    /\ Len(data_dictionary.train_features) = dropped_pts[2] - dropped_pts[1]

\* The fitted pipeline state.
FittedState ==
    <<pca, svm_model, DBSCAN_eps, DBSCAN_min_samples, avg_mean_dist,
      norm_bounds, data_dictionary.train_features>>

ApplyModeCalls ==
    {<<"pca_transform">>, <<"use_SVM_to_remove_outliers">>,
     <<"use_DBSCAN_to_remove_outliers">>,
     <<"check_if_pred_in_training_spaces">>,
     <<"normalize_data_from_metadata">>}

\* C16: no apply-mode operation (pca_transform, the SVM, DBSCAN and
\* distance-index stages in predict mode, normalize_data_from_metadata)
\* changes the stored PCA transform, SVM model, DBSCAN eps and min_samples,
\* avg_mean_dist, min/max bounds or training features.
C16_ApplyKeepsFittedState ==
    [][(cycle = "inference" /\ calls' \in ApplyModeCalls) =>
            FittedState' = FittedState]_vars

\* The distance index has been applied on a fully fitted pipeline.
C16_Witness ==
    /\ cycle = "inference"
    /\ calls = <<"check_if_pred_in_training_spaces">>
    /\ pca /\ svm_model /\ DBSCAN_eps /\ avg_mean_dist /\ norm_bounds
    /\ do_predict = <<0>>

-----------------------------------------------------------------------------
(* The data cleaning of IFreqaiModel: data_cleaning_train once the data      *)
(* dictionary is built, data_cleaning_predict on every predict call         *)

Stage(enabled, name) == IF enabled THEN <<name>> ELSE <<>>

\* The kitchen methods data_cleaning_train calls, in the order of its ifs.
DataCleaningTrainCalls ==
    Stage(freqai_config.principal_component_analysis, "principal_component_analysis")
        \o Stage(freqai_info.use_SVM_to_remove_outliers, "use_SVM_to_remove_outliers")
        \o Stage(freqai_info.DI_threshold # 0, "compute_distances")

\* The kitchen methods data_cleaning_predict calls, in the order of its ifs.
DataCleaningPredictCalls ==
    Stage(freqai_config.principal_component_analysis, "pca_transform")
        \o Stage(freqai_info.use_SVM_to_remove_outliers, "use_SVM_to_remove_outliers")
        \o Stage(freqai_info.DI_threshold # 0, "check_if_pred_in_training_spaces")

CleaningInit ==
    /\ SplitIdle
    /\ SchedIdle /\ ExpIdle /\ DiIdle /\ NormIdle /\ FfIdle
    /\ \E keras \in BOOLEAN, svm \in BOOLEAN, db \in BOOLEAN, di \in {0, 1} :
          freqai_info = [keras |-> keras,
                         use_SVM_to_remove_outliers |-> svm,
                         DI_threshold |-> InitDIThreshold(keras, di),
                         use_DBSCAN_to_remove_outliers |-> db,
                         expiration_hours |-> 0]
    /\ live = FALSE
    /\ svm_model = FALSE
    /\ DBSCAN_eps = FALSE
    /\ dataframe = <<>>
    /\ do_predict = <<>>
    /\ pred_df = <<>>
    /\ do_preds = <<>>
    /\ model_return_values = FALSE
    /\ time = 0
    /\ trained_timestamp = 0
    /\ branch = "none"
    /\ \E n \in 1..MaxTrainRows, test_size \in {0, MaxTestRows},
          prot \in ProtectionChoices, pca_on \in BOOLEAN :
          /\ data_dictionary =
                [train_features |-> Ids(n), train_labels |-> Ids(n),
                 train_weights |-> Ids(n), test_features |-> Ids(test_size),
                 test_labels |-> Ids(test_size), test_weights |-> Ids(test_size)]
          /\ freqai_config = [outlier_protection_percentage |-> prot,
                              test_size |-> test_size,
                              principal_component_analysis |-> pca_on]
    /\ pca = FALSE
    /\ avg_mean_dist = FALSE
    /\ DBSCAN_min_samples = 0
    /\ norm_bounds = FALSE
    /\ cycle = "train"
    /\ calls = <<>>
    /\ dropped_pts = <<>>

\* data_cleaning_train(dk)
RunDataCleaningTrain ==
    /\ cycle = "train"
    /\ IF freqai_config.principal_component_analysis
          THEN pca' = TRUE /\ norm_bounds' = TRUE
          ELSE UNCHANGED <<pca, norm_bounds>>
    /\ IF freqai_info.use_SVM_to_remove_outliers
          THEN \E y_pred \in Verdicts(data_dictionary.train_features, {1, -1}),
                  y_test \in Verdicts(data_dictionary.test_features, {1, -1}) :
                  SVMFitEffect(y_pred, y_test)
          ELSE UNCHANGED <<svm_model, data_dictionary>>
    /\ IF freqai_info.DI_threshold # 0
          THEN avg_mean_dist' = TRUE
          ELSE UNCHANGED avg_mean_dist
    /\ calls' = DataCleaningTrainCalls
    /\ cycle' = "fitted"
    /\ dropped_pts' = <<>>
    /\ UNCHANGED <<DBSCAN_eps, DBSCAN_min_samples, do_predict>>
    /\ KitchenFrame

\* predict(dataframe, dk): filter_features, then data_cleaning_predict
RunDataCleaningPredict ==
    /\ cycle \in {"fitted", "inference"}
    /\ \E rows \in SeqsUpTo(Rows(SvmStageRuns, DiStageRuns, FALSE), MaxApplyRows) :
          do_predict' = Predict(rows)
    /\ calls' = DataCleaningPredictCalls
    /\ cycle' = "inference"
    /\ dropped_pts' = <<>>
    /\ UNCHANGED <<svm_model, DBSCAN_eps, data_dictionary, pca, avg_mean_dist,
                   DBSCAN_min_samples, norm_bounds>>
    /\ KitchenFrame

CleaningNext ==
    \/ RunDataCleaningTrain
    \/ RunDataCleaningPredict

CleaningSpec == CleaningInit /\ [][CleaningNext]_vars

\* The pipeline stage a kitchen method belongs to.
StageOf(method) ==
    CASE method \in {"principal_component_analysis", "pca_transform"} -> "PCA"
      [] method = "use_SVM_to_remove_outliers" -> "SVM"
      [] method = "use_DBSCAN_to_remove_outliers" -> "DBSCAN"
      [] method \in {"compute_distances", "check_if_pred_in_training_spaces"} -> "DI"

StagesRun == [i \in 1..Len(calls) |-> StageOf(calls[i])]

\* The enabled stages in the order dimensionality reduction, SVM, DBSCAN,
\* distance index.
EnabledStages ==
    Stage(freqai_config.principal_component_analysis, "PCA")
        \o Stage(freqai_info.use_SVM_to_remove_outliers, "SVM")
        \o Stage(freqai_info.use_DBSCAN_to_remove_outliers, "DBSCAN")
        \o Stage(freqai_info.DI_threshold # 0, "DI")

\* C17: at train time and at inference time alike, the stages run are the
\* enabled ones, every one of them, in the order dimensionality reduction,
\* SVM, DBSCAN, distance index.
C17_EnabledStagesRunInOrder ==
    cycle \in {"fitted", "inference"} => StagesRun = EnabledStages

\* The stages run are the enabled ones among dimensionality reduction, SVM
\* and distance index, in that order, in both modes.
StagesRunInOrderButDBSCAN ==
    cycle \in {"fitted", "inference"} =>
        StagesRun = SelectSeq(EnabledStages, LAMBDA s : s # "DBSCAN")

-----------------------------------------------------------------------------
(* The distance index of check_if_pred_in_training_spaces, on numbers *)

\* Largest distance of an inference row to its nearest training row.
MaxDistance == 5

\* Largest avg_mean_dist of the training rows.
MaxMeanDist == 3

\* Largest DI_threshold of the configuration.
MaxDIThreshold == 2

DIFar_AboveOnly == distance_min > freqai_info.DI_threshold * mean_dist

\* DI_values = distance.min(axis=0) / avg_mean_dist is not below DI_threshold
\* (np.where(DI_values < DI_threshold, 1, 0) gives 0); avg_mean_dist > 0.
DIFar == ~(distance_min < freqai_info.DI_threshold * mean_dist)

DIInit ==
    /\ SplitIdle
    /\ SchedIdle /\ ExpIdle /\ NormIdle /\ FfIdle
    /\ \E thr \in 1..MaxDIThreshold :
          freqai_info = [keras |-> FALSE, use_SVM_to_remove_outliers |-> FALSE,
                         DI_threshold |-> thr,
                         use_DBSCAN_to_remove_outliers |-> FALSE,
                         expiration_hours |-> 0]
    /\ live = FALSE
    /\ svm_model = FALSE
    /\ DBSCAN_eps = FALSE
    /\ dataframe = <<>>
    /\ do_predict \in {<<0>>, <<1>>}
    /\ pred_df = <<>>
    /\ do_preds = <<>>
    /\ model_return_values = FALSE
    /\ time = 0
    /\ trained_timestamp = 0
    /\ branch = "none"
    /\ data_dictionary = [train_features |-> Ids(2), train_labels |-> Ids(2),
                          train_weights |-> Ids(2), test_features |-> <<>>,
                          test_labels |-> <<>>, test_weights |-> <<>>]
    /\ freqai_config = [outlier_protection_percentage |-> 30, test_size |-> 0,
                        principal_component_analysis |-> FALSE]
    /\ pca = FALSE
    /\ avg_mean_dist = TRUE
    /\ DBSCAN_min_samples = 0
    /\ norm_bounds = FALSE
    /\ cycle = "inference"
    /\ calls = <<"filter_features">>
    /\ dropped_pts = <<>>
    /\ distance_min \in 0..MaxDistance
    /\ mean_dist \in 1..MaxMeanDist

\* check_if_pred_in_training_spaces on the one inference row
CheckIfPredInTrainingSpacesOnRow ==
    /\ WithinRejections
    /\ do_predict' =
          CheckIfPredInTrainingSpaces(do_predict,
              <<[nan |-> FALSE, y_pred |-> 1, DI_far |-> DIFar, label |-> 0]>>)
    /\ calls' = <<"check_if_pred_in_training_spaces">>
    /\ UNCHANGED <<cycle, diVars>>
    /\ KitchenFitted
    /\ UNCHANGED <<splitVars, schedVars, expVars, normVars, ffVars, freqai_info, live,
                   dataframe, pred_df, do_preds, model_return_values, time,
                   trained_timestamp, branch, freqai_config>>

DINext == CheckIfPredInTrainingSpacesOnRow

DISpec == DIInit /\ [][DINext]_vars

\* The distance index has just run on the row.
DIRan == calls' = <<"check_if_pred_in_training_spaces">>

\* The stage rejected the row: its verdict was 0, do_predict went down by 1.
DIRejected == do_predict'[1] = do_predict[1] - 1

\* C18 as stated: the row is rejected exactly when its score exceeds
\* DI_threshold; a score equal to the threshold is not rejected.
C18_RejectedAboveThreshold ==
    [][DIRan => (DIRejected <=>
                    distance_min > freqai_info.DI_threshold * mean_dist)]_vars

\* C18: in apply mode of the distance index a row is rejected exactly when
\* its score (min distance / avg_mean_dist) is not below DI_threshold: above
\* it or equal to it.
C18_RejectedFromThresholdOn ==
    [][DIRan => (DIRejected <=>
                    distance_min >= freqai_info.DI_threshold * mean_dist)]_vars

\* A row whose score equals the threshold has been rejected.
C18_Witness ==
    /\ calls = <<"check_if_pred_in_training_spaces">>
    /\ distance_min = freqai_info.DI_threshold * mean_dist
    /\ do_predict = <<0>>

-----------------------------------------------------------------------------
(* Label normalization: normalize_data and denormalize_labels_from_metadata *)

\* Largest label value of the training column.
MaxLabel == 4

\* Rows of the training label column.
MaxLabelRows == 2

\* A float cell: an exact fraction num / den, or NaN.
NaN == [nan |-> TRUE, num |-> 0, den |-> 1]

Frac(num, den) == [nan |-> FALSE, num |-> num, den |-> den]

\* data_dictionary["train_labels"][item].max() and .min()
ColMax(col) == CHOOSE v \in {col[i] : i \in DOMAIN col} :
                   \A i \in DOMAIN col : col[i] <= v

ColMin(col) == CHOOSE v \in {col[i] : i \in DOMAIN col} :
                   \A i \in DOMAIN col : col[i] >= v

\* 2 * (x - train_labels_min) / (train_labels_max - train_labels_min) - 1 for
\* lo <= x <= hi; with hi = lo the quotient is 0 / 0, which numpy gives as NaN.
NormalizeLabel(x, lo, hi) ==
    IF hi = lo THEN NaN ELSE Frac(2 * (x - lo) - (hi - lo), hi - lo)

\* (y + 1) * (max - min) / 2 + min; NaN stays NaN.
DenormalizeLabel(y, lo, hi) ==
    IF y.nan THEN NaN
    ELSE Frac((y.num + y.den) * (hi - lo) + 2 * y.den * lo, 2 * y.den)

NormInit ==
    /\ SplitIdle /\ PredIdle
    /\ SchedIdle /\ ExpIdle /\ DkIdle /\ DiIdle /\ FfIdle
    /\ train_labels_column \in [1..MaxLabelRows -> 0..MaxLabel]
    /\ label_x \in ColMin(train_labels_column)..ColMax(train_labels_column)
    /\ label_bounds = <<>>
    /\ label_cell = <<>>

\* What the two label methods leave alone.
NormFrame ==
    UNCHANGED <<splitVars, schedVars, predVars, expVars, diVars, ffVars, data_dictionary,
                freqai_config, pca, avg_mean_dist, DBSCAN_min_samples,
                norm_bounds, cycle, dropped_pts>>

\* normalize_data on the label column: the bounds are stored in dk.data and
\* the value is normalized with them.
NormalizeLabels ==
    /\ calls = <<>>
    /\ calls' = <<"normalize_data">>
    /\ LET lo == ColMin(train_labels_column)
           hi == ColMax(train_labels_column)
       IN  /\ label_cell' = <<NormalizeLabel(label_x, lo, hi)>>
           /\ label_bounds' = <<lo, hi>>
    /\ UNCHANGED <<train_labels_column, label_x>>
    /\ NormFrame

\* denormalize_labels_from_metadata on the normalized value, with the bounds
\* stored by normalize_data
DenormalizeLabelsFromMetadata ==
    /\ calls = <<"normalize_data">>
    /\ calls' = <<"denormalize_labels_from_metadata">>
    /\ label_cell' =
          <<DenormalizeLabel(label_cell[1], label_bounds[1], label_bounds[2])>>
    /\ UNCHANGED <<train_labels_column, label_x, label_bounds>>
    /\ NormFrame

NormNext == NormalizeLabels \/ DenormalizeLabelsFromMetadata

NormSpec == NormInit /\ [][NormNext]_vars

\* The value has been normalized and denormalized.
RoundTripDone == calls = <<"denormalize_labels_from_metadata">>

\* The cell holds the number x.
CellIs(x) == ~label_cell[1].nan /\ label_cell[1].num = x * label_cell[1].den

\* C19: for every value x between the minimum and the maximum of a training
\* label column, denormalizing the normalized value with the stored bounds
\* returns x, also when the column's minimum equals its maximum.
C19_RoundTripReturnsX == RoundTripDone => CellIs(label_x)

\* The round trip returns x whenever the column's minimum is below its maximum.
RoundTripWhenSpread ==
    RoundTripDone /\ ColMin(train_labels_column) < ColMax(train_labels_column)
        => CellIs(label_x)

\* With minimum equal to maximum the round trip returns NaN.
RoundTripNaNWhenConstant ==
    RoundTripDone /\ ColMin(train_labels_column) = ColMax(train_labels_column)
        => label_cell[1].nan

-----------------------------------------------------------------------------
(* filter_features: constant feature columns, recorded and replayed *)

\* Largest number of rows of the training dataframe.
MaxFilterRows == 2

\* training_feature_list and label_list
Features == {"%-f1", "%-f2"}

LabelCol == "&-y"

\* Cell values: two numbers, infinity and NaN.
FeatureValues == {"1", "2", "inf", "nan"}

LabelValues == {"1", "nan"}

\* replace([np.inf, -np.inf], np.nan)
ReplaceInf(v) == IF v = "inf" THEN "nan" ELSE v

\* fillna(0)
FillNa(v) == IF v = "nan" THEN "0" ELSE v

\* Series.nunique(): the number of distinct values, NaN not counted.
NUnique(col) == Cardinality({col[i] : i \in DOMAIN col} \ {"nan"})

ConstCols_AllCellsEqual(fd) ==
    {c \in DOMAIN fd : Cardinality({fd[c][i] : i \in DOMAIN fd[c]}) = 1}

\* list((filtered_df.nunique() == 1).loc[lambda x: x].index)
ConstCols(fd) == {c \in DOMAIN fd : NUnique(fd[c]) = 1}

\* check_pred_labels: df.filter(df.columns.difference(constant_labels))
CheckPredLabels(df, constant_labels) ==
    [c \in (DOMAIN df) \ constant_labels |-> df[c]]

FilterInit ==
    /\ SplitIdle /\ PredIdle
    /\ SchedIdle /\ ExpIdle /\ DkIdle /\ DiIdle /\ NormIdle
    /\ \E n \in 1..MaxFilterRows :
          \E feats \in [Features -> [1..n -> FeatureValues]],
             lab \in [1..n -> LabelValues] :
             unfiltered_df = [c \in Features \cup {LabelCol} |->
                                 IF c = LabelCol THEN lab ELSE feats[c]]
    /\ constant_features_list = <<>>
    /\ filtered_df = <<>>
    /\ prediction_df = <<>>

\* What filter_features leaves alone.
FilterFrame ==
    UNCHANGED <<splitVars, schedVars, expVars, diVars, normVars, freqai_info, live,
                svm_model, DBSCAN_eps, dataframe, pred_df, do_preds,
                model_return_values, time, trained_timestamp, branch,
                data_dictionary, freqai_config, pca, avg_mean_dist,
                DBSCAN_min_samples, norm_bounds, cycle, dropped_pts>>

\* filter_features(training_filter=True)
FilterFeaturesTraining ==
    /\ calls = <<>>
    /\ LET n == Len(unfiltered_df[LabelCol])
           fd == [c \in Features |->
                     [i \in 1..n |-> ReplaceInf(unfiltered_df[c][i])]]
           drop_index == [i \in 1..n |-> \E c \in Features : fd[c][i] = "nan"]
           const_cols == ConstCols(fd)
           drop_index_labels == [i \in 1..n |-> unfiltered_df[LabelCol][i] = "nan"]
           keep == [i \in 1..n |-> ~drop_index[i] /\ ~drop_index_labels[i]]
       IN  /\ filtered_df' = [c \in Features \ const_cols |->
                                 SelectRows(fd[c], keep)]
           /\ constant_features_list' = <<const_cols>>
    /\ calls' = <<"filter_features(training_filter=True)">>
    /\ UNCHANGED <<unfiltered_df, prediction_df, do_predict>>
    /\ FilterFrame

\* filter_features(training_filter=False) on a one-row dataframe
FilterFeaturesPrediction ==
    /\ Len(calls) <= 1
    /\ \A i \in DOMAIN calls : calls[i] = "filter_features(training_filter=True)"
    /\ \E row \in [Features -> FeatureValues] :
          LET fd == [c \in Features |-> <<ReplaceInf(row[c])>>]
              checked == IF constant_features_list # <<>>
                            /\ constant_features_list[1] # {}
                         THEN CheckPredLabels(fd, constant_features_list[1])
                         ELSE fd
              drop_index == \E c \in DOMAIN checked : checked[c][1] = "nan"
          IN  /\ prediction_df' = [c \in DOMAIN checked |->
                                      <<FillNa(checked[c][1])>>]
              /\ do_predict' = <<IF drop_index THEN 0 ELSE 1>>
    /\ calls' = Append(calls, "filter_features(training_filter=False)")
    /\ UNCHANGED <<unfiltered_df, constant_features_list, filtered_df>>
    /\ FilterFrame

FilterNext == FilterFeaturesTraining \/ FilterFeaturesPrediction

FilterSpec == FilterInit /\ [][FilterNext]_vars

\* The training filter has run on unfiltered_df.
TrainingFilterRan ==
    calls # <<>> /\ calls[1] = "filter_features(training_filter=True)"

\* The prediction filter has run after the training filter, on the same kitchen.
PredictionFilterReplayed ==
    TrainingFilterRan /\ Len(calls) = 2

\* The column holds one value in every cell that holds a value at all (NaN and
\* the infinities are missing values), and it holds one in some cell.
IsConstant(c) ==
    \E v \in {"1", "2"} :
       /\ \E i \in DOMAIN unfiltered_df[c] : unfiltered_df[c][i] = v
       /\ \A i \in DOMAIN unfiltered_df[c] :
             unfiltered_df[c][i] \in {v, "inf", "nan"}

\* C20: after the training filter every constant feature column is recorded
\* in constant_features_list and absent from the returned feature table; when
\* no column is constant the recorded list is empty; a later prediction filter
\* on the same kitchen removes exactly the recorded columns.
C20_ConstantColumnsRecordedAndReplayed ==
    /\ TrainingFilterRan =>
          /\ \A c \in Features :
                IsConstant(c) => /\ c \in constant_features_list[1]
                                 /\ c \notin DOMAIN filtered_df
          /\ (\A c \in Features : ~IsConstant(c))
                => constant_features_list = <<{}>>
    /\ PredictionFilterReplayed =>
          DOMAIN prediction_df = Features \ constant_features_list[1]

\* One column was constant in training; it was recorded, dropped from the
\* training table and dropped again from the inference row.
C20_Witness ==
    /\ PredictionFilterReplayed
    /\ IsConstant("%-f1") /\ ~IsConstant("%-f2")
    /\ constant_features_list = <<{"%-f1"}>>
    /\ DOMAIN filtered_df = {"%-f2"}
    /\ DOMAIN prediction_df = {"%-f2"}

-----------------------------------------------------------------------------
(* start_backtesting: the sliding windows, train or load, predict, and the  *)
(* predictions joined back onto the strategy's dataframe.  Timestamps of    *)
(* this part count whole periods from the start of the full timerange.      *)

\* Latest "date" a row of the strategy's dataframe can carry.
MaxDate == 4

\* Largest train_period_days and backtest_period_days, in periods.
MaxTrainPeriod == 2

MaxBacktestPeriod == 2

\* start_backtesting calls over the same range.
MaxBacktestRuns == 2

\* The dates of a set, in increasing order: the rows of a candle dataframe.
RECURSIVE SortedSeq(_)
SortedSeq(S) ==
    IF S = {} THEN <<>>
    ELSE LET m == CHOOSE x \in S : \A y \in S : y <= x
         IN  Append(SortedSeq(S \ {m}), m)

\* split_timerange for train period T, backtest period B and range stop R:
\* the i-th training window starts (i - 1) * B after the range start and the
\* backtest window follows it, cut at R; the loop breaks at the window that
\* stops at R.
RECURSIVE SplitWindows(_, _, _, _)
SplitWindows(start, T, B, R) ==
    LET train == [startts |-> start, stopts |-> start + T]
        stop == IF train.stopts + B > R THEN R ELSE train.stopts + B
        backtest == [startts |-> train.stopts, stopts |-> stop]
        pair == [train |-> train, backtest |-> backtest]
    IN  IF stop = R THEN <<pair>>
        ELSE <<pair>> \o SplitWindows(start + B, T, B, R)

\* zip(dk.training_timeranges, dk.backtesting_timeranges)
Windows == SplitWindows(0, bt_config.train_period, bt_config.backtest_period,
                        bt_config.stopts)

SliceDataframe_StopIncluded(timerange, df) ==
    SelectSeq(df, LAMBDA date : date >= timerange.startts
                                /\ date <= timerange.stopts)

\* slice_dataframe, not live:
\* df.loc[(df["date"] >= timerange.startdt) & (df["date"] < timerange.stopdt)]
SliceDataframe(timerange, df) ==
    SelectSeq(df, LAMBDA date : date >= timerange.startts
                                /\ date < timerange.stopts)

ModelExists_Never(timestamp) == FALSE

\* model_exists: the model file named after the coin and trained_timestamp
\* is on disk.
ModelExists(timestamp) == timestamp \in model_files

\* get_predictions_to_append: the dates of the backtest slice beside the
\* predictions of the window's model (named by its trained_timestamp) and
\* the mask.
GetPredictionsToAppend(dates, timestamp, mask) ==
    [i \in 1..Len(dates) |->
        [date |-> dates[i], prediction |-> timestamp,
         do_predict |-> mask[i]]]

\* pd.merge(dataframe[to_keep], full_df, how='left', on='date'), then
\* fillna(0) on full_df's columns: every row of the left table beside each
\* row of full_df with its date, or beside zeros when there is none.
RECURSIVE LeftMergeFilled(_, _)
LeftMergeFilled(dates, right) ==
    IF dates = <<>> THEN <<>>
    ELSE LET d == Head(dates)
             found == SelectSeq(right, LAMBDA r : r.date = d)
         IN  (IF found = <<>>
              THEN <<[date |-> d, prediction |-> 0, do_predict |-> 0]>>
              ELSE found) \o LeftMergeFilled(Tail(dates), right)

BacktestInit ==
    /\ SplitIdle /\ PredIdle
    /\ ExpIdle /\ DkIdle /\ DiIdle /\ NormIdle /\ FfIdle
    /\ ReloadIdle /\ LiveIdle /\ RangeIdle
    /\ \E S \in SUBSET (0..MaxDate) : bt_dataframe = SortedSeq(S)
    /\ \E T \in 1..MaxTrainPeriod, B \in 1..MaxBacktestPeriod :
          \E R \in (T + 1)..MaxDate :
             bt_config = [train_period |-> T, backtest_period |-> B, stopts |-> R]
    /\ train_it = 0
    /\ model_files \in {{}, {bt_config.train_period}}
    /\ full_df = <<>>
    /\ return_dataframe = <<>>
    /\ bt_trained = {}
    /\ bt_run = 1

\* What start_backtesting leaves alone.
BacktestFrame ==
    UNCHANGED <<splitVars, predVars, expVars, dkVars, diVars, normVars, ffVars,
                reloadVars, liveVars, rangeVars, bt_dataframe, bt_config>>

\* One pass of the loop of start_backtesting: the training and backtest
\* slices, train and save or load, predict on the backtest slice, append.
BacktestWindow ==
    /\ train_it < Len(Windows)
    /\ LET w == Windows[train_it + 1]
           dataframe_backtest == SliceDataframe(w.backtest, bt_dataframe)
           stopts == w.train.stopts
       IN  /\ IF ~ModelExists(stopts)
              THEN /\ model_files' = model_files \cup {stopts}
                   /\ bt_trained' = bt_trained \cup {stopts}
              ELSE UNCHANGED <<model_files, bt_trained>>
           /\ \E mask \in [1..Len(dataframe_backtest) -> {0, 1}] :
                 full_df' = full_df \o
                    GetPredictionsToAppend(dataframe_backtest,
                                           stopts, mask)
    /\ train_it' = train_it + 1
    /\ UNCHANGED <<return_dataframe, bt_run>>
    /\ BacktestFrame

\* dk.fill_predictions(dataframe), after the last window
FillPredictions ==
    /\ train_it = Len(Windows)
    /\ return_dataframe = <<>>
    /\ return_dataframe' = <<LeftMergeFilled(bt_dataframe, full_df)>>
    /\ full_df' = <<>>
    /\ UNCHANGED <<train_it, model_files, bt_trained, bt_run>>
    /\ BacktestFrame

\* start is called again for the same pair and range: a new kitchen, the
\* model files of the earlier call still on disk.
StartBacktestingAgain ==
    /\ return_dataframe # <<>>
    /\ bt_run < MaxBacktestRuns
    /\ bt_run' = bt_run + 1
    /\ train_it' = 0
    /\ full_df' = <<>>
    /\ return_dataframe' = <<>>
    /\ bt_trained' = {}
    /\ UNCHANGED model_files
    /\ BacktestFrame

BacktestNext == BacktestWindow \/ FillPredictions \/ StartBacktestingAgain

BacktestSpec == BacktestInit /\ [][BacktestNext]_vars

\* The backtest windows that hold the date.
WindowsOf(date) ==
    {i \in 1..Len(Windows) : /\ date >= Windows[i].backtest.startts
                             /\ date < Windows[i].backtest.stopts}

-----------------------------------------------------------------------------
(* Reloading a persisted model: check_if_feature_list_matches_strategy *)

\* Columns a strategy can furnish: names with "%" are features.
ColumnNames == {"%-a", "%-b", "&-y"}

FeatureColumns == {"%-a", "%-b"}

\* The column lists of a strategy dataframe with at least one feature.
StrategyDataframes ==
    {cols \in UNION {[1..n -> ColumnNames] : n \in 1..Cardinality(ColumnNames)} :
        /\ \A i, j \in DOMAIN cols : cols[i] = cols[j] => i = j
        /\ \E i \in DOMAIN cols : cols[i] \in FeatureColumns}

\* find_features: features = [c for c in column_names if "%" in c]
FindFeatures(column_names) ==
    SelectSeq(column_names, LAMBDA c : c \in FeatureColumns)

\* What a training leaves in the kitchen: with PCA the list becomes the
\* component names and dk.data keeps the raw list, without PCA dk.data has
\* no "training_features_list_raw".
TrainedFeatures(column_names, pca_on) ==
    IF pca_on
    THEN [training_features_list |-> <<"PC0">>,
          raw |-> <<FindFeatures(column_names)>>]
    ELSE [training_features_list |-> FindFeatures(column_names), raw |-> <<>>]

ReloadInit ==
    /\ SplitIdle /\ PredIdle
    /\ ExpIdle /\ DkIdle /\ DiIdle /\ NormIdle /\ FfIdle
    /\ BtIdle /\ LiveIdle /\ RangeIdle
    /\ strategy_columns \in StrategyDataframes
    /\ \E trained_on \in StrategyDataframes, pca_on \in BOOLEAN :
          model_metadata = TrainedFeatures(trained_on, pca_on)
    /\ dk_features = [training_features_list |-> <<>>, raw |-> <<>>]
    /\ reload_result = "none"

ReloadFrame ==
    UNCHANGED <<splitVars, predVars, expVars, dkVars, diVars, normVars, ffVars,
                btVars, liveVars, rangeVars, strategy_columns,
                model_metadata>>

\* dk.load_data: the kitchen takes the feature list and the dk.data saved
\* with the model.
LoadData ==
    /\ reload_result = "none"
    /\ dk_features' = model_metadata
    /\ reload_result' = "loaded"
    /\ ReloadFrame

\* if "training_features_list_raw" in dk.data
RawListCompared(data) == data.raw # <<>>

\* check_if_feature_list_matches_strategy on the strategy's dataframe
CheckIfFeatureListMatchesStrategy ==
    /\ reload_result = "loaded"
    /\ LET training_features_list == FindFeatures(strategy_columns)
           feature_list == IF RawListCompared(dk_features)
                           THEN dk_features.raw[1]
                           ELSE training_features_list
       IN  /\ dk_features' = [dk_features EXCEPT
                 !.training_features_list = training_features_list]
           /\ reload_result' = IF training_features_list # feature_list
                               THEN "OperationalException" ELSE "matched"
    /\ ReloadFrame

\* predict, reached when the check has not raised
PredictAfterReload ==
    /\ reload_result = "matched"
    /\ reload_result' = "predicted"
    /\ UNCHANGED dk_features
    /\ ReloadFrame

ReloadNext == LoadData \/ CheckIfFeatureListMatchesStrategy \/ PredictAfterReload

ReloadSpec == ReloadInit /\ [][ReloadNext]_vars

\* The feature list of the strategy the model was trained with.
RecordedFeatures ==
    IF model_metadata.raw # <<>> THEN model_metadata.raw[1]
    ELSE model_metadata.training_features_list

\* C23: a reloaded model whose recorded feature list differs from the
\* strategy's current one never passes the check and never predicts, with
\* or without PCA at training time.
C23_MismatchNeverTolerated ==
    reload_result \in {"matched", "predicted"}
        => FindFeatures(strategy_columns) = RecordedFeatures

\* With PCA at training time the raw list is saved and a mismatch raises.
MismatchRaisesWithPCA ==
    reload_result \in {"matched", "predicted"} /\ model_metadata.raw # <<>>
        => FindFeatures(strategy_columns) = RecordedFeatures

\* Without PCA the check never raises.
NoRaiseWithoutPCA ==
    model_metadata.raw = <<>> => reload_result # "OperationalException"

-----------------------------------------------------------------------------
(* Live mode: start, start_live, the start_scanning thread and             *)
(* train_model_in_series.  The registry (data drawer) keeps the tracked    *)
(* pairs in a queue whose front pair has priority 1.  A model's            *)
(* trained_timestamp is kept as its age in hours.                          *)

\* config["exchange"]["pair_whitelist"], in the order the loop visits it
pair_whitelist == <<"BTC/USDT", "ETH/USDT">>

Pairs == {pair_whitelist[k] : k \in DOMAIN pair_whitelist}

\* Threads the @threaded decorator can have started.
ScanThreads == {1, 2}

\* Largest live_retrain_hours of the configuration.
MaxRetrainHours == 1

\* Ages are counted up to this many hours.
MaxModelAge == 2

Tracked(pair) == \E k \in DOMAIN training_queue : training_queue[k] = pair

\* dd.pair_dict[pair]["priority"]: 1 for the pair at the front of the queue.
Priority(pair) ==
    IF training_queue # <<>> /\ training_queue[1] = pair THEN 1 ELSE 0

\* dd.set_pair_dict_info: a pair not yet tracked joins the back of the queue.
SetPairDictInfo(queue, pair) ==
    IF \E k \in DOMAIN queue : queue[k] = pair THEN queue
    ELSE Append(queue, pair)

\* dd.pair_to_end_of_training_queue: the pair leaves its place and joins the
\* back, the pairs behind it move up.
PairToEndOfTrainingQueue(queue, pair) ==
    Append(SelectSeq(queue, LAMBDA p : p # pair), pair)

ServePath_LiveUntilScanning(mode, follower) ==
    IF mode = "live" /\ (follower \/ ~scanning) THEN "start_live"
    ELSE IF ~follower THEN "start_backtesting"
    ELSE "return"

\* start: start_live in dry/live run mode, start_backtesting otherwise,
\* unless the instance follows.
ServePath(mode, follower) ==
    IF mode = "live" THEN "start_live"
    ELSE IF ~follower THEN "start_backtesting"
    ELSE "return"

StartLiveScans_Followers == TRUE

\* start_live: `if not self.follow_mode:` around the start of the loop
StartLiveScans == ~follow_mode

ScanningOff_Unset == TRUE

\* start_live: `if not self.scanning:`
ScanningOff == ~scanning

PriorityIsOne_Always(pair) == TRUE

\* start_scanning: the negation of `self.dd.pair_dict[pair]["priority"] != 1`
PriorityIsOne(pair) == Priority(pair) = 1

CheckIfNewTrainingRequired_AtLeast(pair) ==
    \/ ~pair_dict[pair].trained
    \/ pair_dict[pair].age >= live_retrain_hours

CheckIfNewTrainingRequired_FirstOnly(pair) == ~pair_dict[pair].trained

\* check_if_new_training_required: retrain when trained_timestamp is 0 or
\* the model is older than live_retrain_hours.
CheckIfNewTrainingRequired(pair) ==
    \/ ~pair_dict[pair].trained
    \/ pair_dict[pair].age > live_retrain_hours

QueueMoveDue_Never(pair) == FALSE

\* train_model_in_series:
\* `if self.dd.pair_dict[pair]["priority"] == 1 and self.scanning:`
QueueMoveDue(pair) == Priority(pair) = 1 /\ scanning

\* The pair thread t is at in its pass over the whitelist.
PairOf(t) == pair_whitelist[scan_threads[t].k]

\* A fresh instance in either run mode, following or not; a follower that
\* backtests is left out (start makes no kitchen for it). Nothing is tracked,
\* nothing is trained and no loop runs.
LiveInit ==
    /\ SplitIdle /\ PredIdle
    /\ ExpIdle /\ DkIdle /\ DiIdle /\ NormIdle /\ FfIdle
    /\ BtIdle /\ ReloadIdle /\ RangeIdle
    /\ \E m \in {"live", "backtest"}, f \in BOOLEAN :
          /\ runmode = m
          /\ follow_mode = f
          /\ ~(m = "backtest" /\ f)
    /\ live_retrain_hours \in 0..MaxRetrainHours
    /\ scanning = FALSE
    /\ lock = 0
    /\ scan_threads = [t \in ScanThreads |->
                          [pc |-> "off", k |-> 1, since |-> 0, moves |-> 0]]
    /\ training_queue = <<>>
    /\ pair_dict = [p \in Pairs |-> [trained |-> FALSE, age |-> 0]]
    /\ model_saved = [p \in Pairs |-> FALSE]
    /\ fg = [pc |-> "idle", pair |-> pair_whitelist[1], saw_unsaved |-> FALSE,
             ts_of |-> "no model", newer_saved |-> FALSE]

LiveFrame ==
    UNCHANGED <<splitVars, predVars, expVars, dkVars, diVars, normVars, ffVars,
                btVars, reloadVars, rangeVars, runmode, follow_mode,
                live_retrain_hours>>

\* start: dd.set_pair_dict_info(metadata), then the branch on the run mode
ServeStart(pair) ==
    /\ fg.pc = "idle"
    /\ training_queue' = SetPairDictInfo(training_queue, pair)
    /\ fg' = [pc |-> ServePath(runmode, follow_mode), pair |-> pair,
              saw_unsaved |-> FALSE, ts_of |-> "no model",
              newer_saved |-> FALSE]
    /\ UNCHANGED <<scanning, lock, scan_threads, pair_dict, model_saved>>
    /\ LiveFrame

\* start_live up to load_data: the pair's trained_timestamp is read, and the
\* scanning thread is started when none is running.
ServeLive ==
    /\ fg.pc = "start_live"
    /\ fg' = [fg EXCEPT !.pc = "load",
                        !.saw_unsaved = /\ pair_dict[fg.pair].trained
                                        /\ ~model_saved[fg.pair],
                        !.ts_of = IF ~pair_dict[fg.pair].trained
                                     THEN "no model"
                                  ELSE IF model_saved[fg.pair]
                                     THEN "saved model"
                                  ELSE "unsaved model"]
    /\ IF StartLiveScans /\ ScanningOff
          /\ \E t \in ScanThreads : scan_threads[t].pc = "off"
       THEN /\ scanning' = TRUE
            /\ LET t == CHOOSE t \in ScanThreads :
                           /\ scan_threads[t].pc = "off"
                           /\ \A u \in ScanThreads :
                                 scan_threads[u].pc = "off" => t <= u
               IN  scan_threads' = [scan_threads EXCEPT ![t].pc = "sleep"]
       ELSE UNCHANGED <<scanning, scan_threads>>
    /\ UNCHANGED <<lock, training_queue, pair_dict, model_saved>>
    /\ LiveFrame

\* start_live from load_data on: null values when no model is found,
\* predictions otherwise, the expiry judged by the trained_timestamp read
\* before; load_data(coin) brings the model saved last for the pair
ServeLoad ==
    /\ fg.pc = "load"
    /\ fg' = [fg EXCEPT !.pc = "idle"]
    /\ UNCHANGED <<scanning, lock, scan_threads, training_queue, pair_dict,
                   model_saved>>
    /\ LiveFrame

\* start_backtesting: the strategy's thread trains and saves the models of
\* the windows itself
ServeBacktest ==
    /\ fg.pc = "start_backtesting"
    /\ fg' = [fg EXCEPT !.pc = "idle"]
    /\ pair_dict' = [pair_dict EXCEPT ![fg.pair] = [trained |-> TRUE, age |-> 0]]
    /\ model_saved' = [model_saved EXCEPT ![fg.pair] = TRUE]
    /\ UNCHANGED <<scanning, lock, scan_threads, training_queue>>
    /\ LiveFrame

\* The thread goes on to the next pair of the whitelist, or to sleep.
Advance(t) ==
    IF scan_threads[t].k < Len(pair_whitelist)
    THEN [scan_threads EXCEPT ![t].pc = "examine", ![t].k = @ + 1]
    ELSE [scan_threads EXCEPT ![t].pc = "sleep"]

\* start_scanning: time.sleep(1), then the pass over the whitelist begins
ScanWake(t) ==
    /\ scan_threads[t].pc = "sleep"
    /\ scan_threads' = [scan_threads EXCEPT ![t].pc = "examine", ![t].k = 1]
    /\ UNCHANGED <<scanning, lock, training_queue, pair_dict, model_saved, fg>>
    /\ LiveFrame

\* start_scanning: the priority test; a kitchen is made for a pair that
\* passes it
ScanExamine(t) ==
    /\ scan_threads[t].pc = "examine"
    /\ scan_threads' = IF PriorityIsOne(PairOf(t))
                       THEN [scan_threads EXCEPT ![t].pc = "kitchen"]
                       ELSE Advance(t)
    /\ UNCHANGED <<scanning, lock, training_queue, pair_dict, model_saved, fg>>
    /\ LiveFrame

\* start_scanning: check_if_new_training_required and `if retrain:`
ScanDecide(t) ==
    /\ scan_threads[t].pc = "kitchen"
    /\ scan_threads' = IF CheckIfNewTrainingRequired(PairOf(t))
                       THEN [scan_threads EXCEPT ![t].pc = "training",
                                                 ![t].since = 0,
                                                 ![t].moves = 0]
                       ELSE Advance(t)
    /\ UNCHANGED <<scanning, lock, training_queue, pair_dict, model_saved, fg>>
    /\ LiveFrame

\* train_model_in_series: self.train returns and the pair's
\* trained_timestamp becomes new_trained_timerange.stopts
ScanStamp(t) ==
    /\ scan_threads[t].pc = "training"
    /\ pair_dict' = [pair_dict EXCEPT ![PairOf(t)] =
                        [trained |-> TRUE, age |-> scan_threads[t].since]]
    /\ model_saved' = [model_saved EXCEPT ![PairOf(t)] = FALSE]
    /\ scan_threads' = [scan_threads EXCEPT ![t].pc = "stamped"]
    /\ UNCHANGED <<scanning, lock, training_queue, fg>>
    /\ LiveFrame

\* train_model_in_series: the priority test and `with self.lock:`
ScanLock(t) ==
    /\ scan_threads[t].pc = "stamped"
    /\ IF QueueMoveDue(PairOf(t))
       THEN /\ lock = 0
            /\ lock' = t
            /\ scan_threads' = [scan_threads EXCEPT ![t].pc = "locked"]
       ELSE /\ scan_threads' = [scan_threads EXCEPT ![t].pc = "saving"]
            /\ UNCHANGED lock
    /\ UNCHANGED <<scanning, training_queue, pair_dict, model_saved, fg>>
    /\ LiveFrame

\* train_model_in_series: pair_to_end_of_training_queue, and the lock is
\* released
ScanMove(t) ==
    /\ scan_threads[t].pc = "locked"
    /\ training_queue' = PairToEndOfTrainingQueue(training_queue, PairOf(t))
    /\ lock' = 0
    /\ scan_threads' = [scan_threads EXCEPT ![t].pc = "saving",
                                            ![t].moves = @ + 1]
    /\ UNCHANGED <<scanning, pair_dict, model_saved, fg>>
    /\ LiveFrame

\* What a save of the pair's model means to a start_live call that has read
\* the pair's trained_timestamp and has not loaded yet: the model of that
\* timestamp is now the saved one, or a model trained later is.
SavedDuringServe(call, pair) ==
    IF call.pc = "load" /\ call.pair = pair
        THEN IF call.ts_of = "unsaved model"
                THEN [call EXCEPT !.ts_of = "saved model"]
                ELSE [call EXCEPT !.newer_saved = TRUE]
        ELSE call

\* train_model_in_series: dk.save_data, and the loop goes on
ScanSave(t) ==
    /\ scan_threads[t].pc = "saving"
    /\ model_saved' = [model_saved EXCEPT ![PairOf(t)] = TRUE]
    /\ scan_threads' = Advance(t)
    /\ fg' = SavedDuringServe(fg, PairOf(t))
    /\ UNCHANGED <<scanning, lock, training_queue, pair_dict>>
    /\ LiveFrame

\* An hour passes: the models and the training ranges in the making age.
HourPasses ==
    /\ \/ \E p \in Pairs : pair_dict[p].trained /\ pair_dict[p].age < MaxModelAge
       \/ \E t \in ScanThreads : /\ scan_threads[t].pc = "training"
                                 /\ scan_threads[t].since < MaxModelAge
    /\ pair_dict' = [p \in Pairs |->
                        IF pair_dict[p].trained /\ pair_dict[p].age < MaxModelAge
                        THEN [pair_dict[p] EXCEPT !.age = @ + 1]
                        ELSE pair_dict[p]]
    /\ scan_threads' = [t \in ScanThreads |->
                           IF /\ scan_threads[t].pc = "training"
                              /\ scan_threads[t].since < MaxModelAge
                           THEN [scan_threads[t] EXCEPT !.since = @ + 1]
                           ELSE scan_threads[t]]
    /\ UNCHANGED <<scanning, lock, training_queue, model_saved, fg>>
    /\ LiveFrame

ScanStep(t) ==
    \/ ScanWake(t)
    \/ ScanExamine(t)
    \/ ScanDecide(t)
    \/ ScanStamp(t)
    \/ ScanLock(t)
    \/ ScanMove(t)
    \/ ScanSave(t)

LiveNext ==
    \/ \E pair \in Pairs : ServeStart(pair)
    \/ ServeLive
    \/ ServeLoad
    \/ ServeBacktest
    \/ \E t \in ScanThreads : ScanStep(t)
    \/ HourPasses

LiveSpec == LiveInit /\ [][LiveNext]_vars

\* The scheduling of the loop is fair: a running thread takes its next step,
\* a start_live call that has begun goes on, and time passes.
LiveFairSpec ==
    /\ LiveSpec
    /\ WF_vars(\E t \in ScanThreads : ScanStep(t))
    /\ WF_vars(ServeLive \/ ServeLoad)
    /\ WF_vars(HourPasses)

-----------------------------------------------------------------------------
(* Properties of live mode *)

\* start_scanning threads that have been started.
ScanLoopsStarted == Cardinality({t \in ScanThreads : scan_threads[t].pc # "off"})

\* The thread is inside train_model_in_series.
InTrainModelInSeries(t) ==
    scan_threads[t].pc \in {"training", "stamped", "locked", "saving"}

\* The strategy's thread is training (start_backtesting is its only path
\* that trains).
ForegroundTrains == fg.pc = "start_backtesting"

\* C24: a start_live call never reads a trained_timestamp whose model has
\* not been saved yet, however it interleaves with a background retrain.
C24_ServeSeesOnlySavedModels == ~fg.saw_unsaved

\* In every reachable state of the background retrain between the
\* trained_timestamp assignment and save_data the registry names a model
\* that is not on disk; outside of it it never does.
UnsavedOnlyInsideRetrain ==
    \A p \in Pairs :
       pair_dict[p].trained /\ ~model_saved[p]
          <=> \E t \in ScanThreads :
                 /\ PairOf(t) = p
                 /\ scan_threads[t].pc \in {"stamped", "locked", "saving"}

\* C25: at most one scanning loop is ever started; backtest mode and follow
\* mode start none; the first start_live call of a live, non-following
\* instance starts it.
C25_AtMostOneScanningLoop ==
    /\ [](/\ ScanLoopsStarted <= 1
          /\ (runmode # "live" \/ follow_mode) => ScanLoopsStarted = 0)
    /\ [][(/\ fg.pc = "start_live" /\ fg'.pc = "load"
           /\ runmode = "live" /\ ~follow_mode
           /\ ScanLoopsStarted = 0) => ScanLoopsStarted' = 1]_vars

\* Both pairs have been served, so start_live has run more than once, and
\* one loop is running.
C25_Witness ==
    /\ Len(training_queue) = 2
    /\ fg.pc = "idle"
    /\ ScanLoopsStarted = 1
    /\ scan_threads[1].pc = "training"

\* C26: in live mode at most one training is in progress at any time, and a
\* loop inside train_model_in_series stays at its pair until the train is
\* finished.
C26_OneTrainingAtATime ==
    /\ [](runmode = "live" =>
             Cardinality({t \in ScanThreads : InTrainModelInSeries(t)})
                + (IF ForegroundTrains THEN 1 ELSE 0) <= 1)
    /\ [][\A t \in ScanThreads :
             scan_threads[t].pc \in {"training", "stamped", "locked"}
                => scan_threads'[t].k = scan_threads[t].k]_vars

\* The loop trains the second pair while the first, tracked too, waits.
C26_Witness ==
    /\ runmode = "live"
    /\ Len(training_queue) = 2
    /\ scan_threads[1].pc = "training"
    /\ scan_threads[1].k = 2
    /\ pair_dict[pair_whitelist[1]].trained

\* C27: the strategy's thread and the background loop never train the same
\* pair at the same time.
C27_NoConcurrentTrainOfOnePair ==
    \A t \in ScanThreads :
       InTrainModelInSeries(t) => ~(ForegroundTrains /\ fg.pair = PairOf(t))

\* The loop trains a pair while a start_live call for that pair is under way.
C27_Witness ==
    \E t \in ScanThreads :
       /\ scan_threads[t].pc = "training"
       /\ fg.pc \in {"start_live", "load"}
       /\ fg.pair = PairOf(t)

\* C28: the loop makes a kitchen for a pair only when the pair has priority
\* 1 as it is examined, and starts a train only from that kitchen and only
\* when the retrain decision is true; a pair with another priority is passed
\* over without a kitchen.
C28_TrainsOnlyPriorityOneAndDue ==
    [][\A t \in ScanThreads :
          /\ (scan_threads'[t].pc = "kitchen" /\ scan_threads[t].pc # "kitchen")
                => /\ scan_threads[t].pc = "examine"
                   /\ Priority(PairOf(t)) = 1
          /\ (scan_threads[t].pc = "examine" /\ Priority(PairOf(t)) # 1)
                => scan_threads'[t].pc \in {"examine", "sleep"}
          /\ (scan_threads'[t].pc = "training" /\ scan_threads[t].pc # "training")
                => /\ scan_threads[t].pc = "kitchen"
                   /\ scan_threads'[t].k = scan_threads[t].k
                   /\ \/ ~pair_dict[PairOf(t)].trained
                      \/ pair_dict[PairOf(t)].age > live_retrain_hours]_vars

\* The loop trains the second pair of the whitelist, having passed over the
\* first, which is tracked and has never been trained but is not at the
\* front.
C28_Witness ==
    /\ scan_threads[1].pc = "training"
    /\ scan_threads[1].k = 2
    /\ Tracked(pair_whitelist[1])
    /\ ~pair_dict[pair_whitelist[1]].trained

\* C29: a background retrain moves its pair to the back of the queue exactly
\* once; the order of the queue changes only in a step of the thread that
\* holds the lock; the lock is held neither while the model is trained nor
\* while it is saved.
C29_QueueMovedOnceUnderLock ==
    /\ [](\A t \in ScanThreads :
             scan_threads[t].pc \in {"training", "stamped", "saving"}
                => lock # t)
    /\ [][/\ (Len(training_queue') = Len(training_queue)
              /\ training_queue' # training_queue)
                => /\ lock \in ScanThreads
                   /\ scan_threads[lock].pc = "locked"
          /\ \A t \in ScanThreads :
                /\ scan_threads'[t].moves = scan_threads[t].moves + 1
                      => /\ lock = t
                         /\ training_queue'[Len(training_queue')] = PairOf(t)
                /\ (scan_threads[t].pc = "saving"
                    /\ scan_threads'[t].pc # "saving")
                      => scan_threads[t].moves = 1]_vars

\* The retrained pair has gone from the front of a queue of two to its back
\* and the model is about to be saved, the lock free.
C29_Witness ==
    /\ scan_threads[1].pc = "saving"
    /\ scan_threads[1].moves = 1
    /\ lock = 0
    /\ training_queue = <<pair_whitelist[2], pair_whitelist[1]>>
    /\ PairOf(1) = pair_whitelist[1]

\* C30: under fair scheduling, in a live instance that does not follow,
\* every tracked pair is retrained again and again.
C30_EveryTrackedPairRetrained ==
    \A p \in Pairs :
       (runmode = "live" /\ ~follow_mode /\ Tracked(p))
          ~> (\E t \in ScanThreads :
                 scan_threads[t].pc = "stamped" /\ PairOf(t) = p)

\* Both pairs have a model and the loop is training the first one again.
C30_Witness ==
    /\ \A p \in Pairs : pair_dict[p].trained /\ model_saved[p]
    /\ scan_threads[1].pc = "training"
    /\ PairOf(1) = pair_whitelist[1]

-----------------------------------------------------------------------------
(* The retrain decision in live mode *)

\* The pair has no model, or its model is more than live_retrain_hours old.
NoRecordOrStale(p) ==
    \/ ~pair_dict[p].trained
    \/ pair_dict[p].age > live_retrain_hours

\* The loop is retraining the pair: train has returned for it.
Retrained(p) ==
    \E t \in ScanThreads : scan_threads[t].pc = "stamped" /\ PairOf(t) = p

-----------------------------------------------------------------------------
(* check_if_new_training_required *)

\* Largest train_period_days of the configuration.
MaxTrainPeriodDays == 2

\* Largest startup_candle_count of the configuration.
MaxStartupCandles == 2

\* The model's age at the call, in half hours, goes up to this.
MaxElapsedHalfHours == 4

\* include_timeframes of the configuration.
Timeframes == {"5m", "1h"}

IncludeTimeframes ==
    {<<a>> : a \in Timeframes} \cup {<<a, b>> : a \in Timeframes, b \in Timeframes}

\* freqtrade.exchange.timeframe_to_seconds
TimeframeToSeconds(tf) == IF tf = "1h" THEN SECONDS_IN_HOUR ELSE 300

MaxTfSeconds_First(timeframes) == TimeframeToSeconds(timeframes[1])

\* max_tf_seconds: the loop over include_timeframes keeps the largest.
RECURSIVE MaxTfSeconds(_)
MaxTfSeconds(timeframes) ==
    IF timeframes = <<>> THEN 0
    ELSE LET secs == TimeframeToSeconds(Head(timeframes))
             rest == MaxTfSeconds(Tail(timeframes))
         IN  IF secs > rest THEN secs ELSE rest

\* additional_seconds = max_period * max_tf_seconds,
\* max_period = startup_candle_count * 2
AdditionalSeconds(args) ==
    args.startup_candle_count * 2 * MaxTfSeconds(args.include_timeframes)

\* TimeRange()
EmptyTimeRange == [startts |-> 0, stopts |-> 0]

\* int(time - seconds): the clock is [sec] whole seconds and [half] half
\* seconds; int truncates toward zero.
IntTimeMinus(args, seconds) ==
    LET whole == args.time.sec - seconds
    IN  IF whole < 0 /\ args.time.half = 1 THEN whole + 1 ELSE whole

\* elapsed_time > live_retrain_hours, elapsed_time in hours; True when
\* trained_timestamp is 0.
Retrain(args) ==
    IF args.trained_timestamp # 0
    THEN LET elapsed == args.time.sec - args.trained_timestamp
             limit == SECONDS_IN_HOUR * args.live_retrain_hours
         IN  elapsed > limit \/ (elapsed = limit /\ args.time.half = 1)
    ELSE TRUE

\* The two windows the function fills in when it reports retrain.
TrainedTimerange(args) ==
    [startts |-> IntTimeMinus(args, args.train_period_days * SECONDS_IN_DAY),
     stopts |-> IntTimeMinus(args, 0)]

DataLoadTimerange(args) ==
    [startts |-> IntTimeMinus(args, args.train_period_days * SECONDS_IN_DAY
                                       + AdditionalSeconds(args)),
     stopts |-> IntTimeMinus(args, 0)]

\* A kitchen of a live instance about to be asked: the pair has no model
\* (trained_timestamp 0) or one of some age; the clock has a fraction of a
\* second or none.
RetrainInit ==
    /\ SplitIdle /\ PredIdle
    /\ ExpIdle /\ DkIdle /\ DiIdle /\ NormIdle /\ FfIdle
    /\ BtIdle /\ ReloadIdle /\ LiveIdle
    /\ \E ts \in {0, Jan01}, k \in 0..MaxElapsedHalfHours, half \in {0, 1},
          days \in 0..MaxTrainPeriodDays, hours \in 0..MaxRetrainHours,
          candles \in 0..MaxStartupCandles, tfs \in IncludeTimeframes :
          retrain_args =
             <<[trained_timestamp |-> ts,
                time |-> [sec |-> Jan01 + k * (SECONDS_IN_HOUR \div 2),
                          half |-> half],
                train_period_days |-> days,
                live_retrain_hours |-> hours,
                startup_candle_count |-> candles,
                include_timeframes |-> tfs]>>
    /\ retrain_result = <<>>
    /\ FtrIdle /\ HistIdle /\ CtxIdle /\ StageIdle

\* check_if_new_training_required(trained_timestamp)
CallCheckIfNewTrainingRequired ==
    /\ retrain_args # <<>>
    /\ retrain_result = <<>>
    /\ LET args == retrain_args[1]
       IN  retrain_result' =
              <<[retrain |-> Retrain(args),
                 trained_timerange |->
                    IF Retrain(args) THEN TrainedTimerange(args)
                    ELSE EmptyTimeRange,
                 data_load_timerange |->
                    IF Retrain(args) THEN DataLoadTimerange(args)
                    ELSE EmptyTimeRange]>>
    /\ UNCHANGED <<splitVars, predVars, expVars, dkVars, diVars, normVars,
                   ffVars, btVars, reloadVars, liveVars, retrain_args,
                   ftrVars, histVars, ctxVars, stageVars>>

RetrainSpec == RetrainInit /\ [][CallCheckIfNewTrainingRequired]_vars

\* The whole seconds of the clock at the call.
NowSeconds == retrain_args[1].time.sec

\* The call reports retrain exactly when there is no trained_timestamp or
\* more than live_retrain_hours hours have passed since it.
RetrainExactlyWhenNoRecordOrStale ==
    retrain_result # <<>> =>
       (retrain_result[1].retrain
           <=> \/ retrain_args[1].trained_timestamp = 0
               \/ 2 * (NowSeconds - retrain_args[1].trained_timestamp)
                        + retrain_args[1].time.half
                     > 2 * retrain_args[1].live_retrain_hours * 3600)

\* C32: when the call reports retrain, the train window stops at the clock's
\* second and is exactly train_period_days long, and the data-load window
\* has the same stop and starts startup_candle_count * 2 * (largest included
\* timeframe, in seconds) earlier than the train window.
C32_WindowsOfARetrain ==
    (retrain_result # <<>> /\ retrain_result[1].retrain) =>
       LET r == retrain_result[1]
           a == retrain_args[1]
           largest == CHOOSE m \in {TimeframeToSeconds(a.include_timeframes[i]) :
                                       i \in DOMAIN a.include_timeframes} :
                         \A i \in DOMAIN a.include_timeframes :
                            TimeframeToSeconds(a.include_timeframes[i]) <= m
       IN  /\ r.trained_timerange.stopts = NowSeconds
           /\ r.trained_timerange.startts
                 = NowSeconds - a.train_period_days * 86400
           /\ r.data_load_timerange.stopts = r.trained_timerange.stopts
           /\ r.trained_timerange.startts - r.data_load_timerange.startts
                 = a.startup_candle_count * 2 * largest

\* A stale model, a clock between two seconds, and the shorter timeframe
\* listed first: the call has reported retrain.
C32_Witness ==
    /\ retrain_result # <<>>
    /\ retrain_result[1].retrain
    /\ retrain_args[1].trained_timestamp # 0
    /\ retrain_args[1].time.half = 1
    /\ retrain_args[1].include_timeframes = <<"5m", "1h">>
    /\ retrain_args[1].startup_candle_count > 0
    /\ retrain_args[1].train_period_days > 0

-----------------------------------------------------------------------------
(* The mask through the stages of one prediction *)

\* C40: within one prediction no stage raises a row's do_predict: a row
\* filter_features marked 0 for its NaN comes back with a value that is not
\* above 0, whatever stages run after it, the SVM stage of a Keras model
\* included.
C40_RejectedRowsStayRejected ==
    (branch \in {"first", "first_expired", "recent", "backtest"}) =>
        \A i \in 1..Len(do_preds) :
            PredictedRows[i].nan => do_preds[i] <= 0

\* Without the Keras switch every stage adds a verdict of 0 or 1 and takes 1
\* away, so no row's value rises after filter_features.
RejectedRowsStayRejectedNonKeras ==
    (branch \in {"first", "first_expired", "recent", "backtest"}
        /\ ~freqai_info.keras) =>
        \A i \in 1..Len(do_preds) :
            do_preds[i] <= FilterFeatures(PredictedRows)[i]

-----------------------------------------------------------------------------
(* The rows predicted by successive live calls for one pair *)

\* Number of the last candle the strategy comes to hand over.
MaxCandle == 5

\* Longest dataframe of the strategy.
MaxTableLen == 3

\* The candles of a table.
CandlesOf(rows) == {rows[i] : i \in DOMAIN rows}

\* A live instance before the first start call for the pair: the strategy
\* holds the candles 1..n.
HistoryInit ==
    /\ SplitIdle /\ PredIdle
    /\ ExpIdle /\ DkIdle /\ DiIdle /\ NormIdle /\ FfIdle
    /\ BtIdle /\ ReloadIdle /\ LiveIdle
    /\ RetrainIdle /\ FtrIdle /\ CtxIdle /\ StageIdle
    /\ \E n \in 1..MaxTableLen : strat_df = [i \in 1..n |-> i]
    /\ has_return_values = FALSE
    /\ predicted_before = {}
    /\ predicted_last = <<>>

HistoryFrame ==
    UNCHANGED <<splitVars, predVars, expVars, dkVars, diVars, normVars, ffVars,
                btVars, reloadVars, liveVars, retrainVars, ftrVars, ctxVars,
                stageVars>>

\* The rows of the calls before this one.
PredictedSoFar ==
    predicted_before
       \cup (IF predicted_last = <<>> THEN {} ELSE predicted_last[1].rows)

\* build_strategy_return_arrays, `if pair not in self.dd.model_return_values`:
\* the model is run on the whole dataframe and the history is started.
ServeFirstPredictions ==
    /\ ~has_return_values
    /\ predicted_last' = <<[branch |-> "first", rows |-> CandlesOf(strat_df)]>>
    /\ predicted_before' = PredictedSoFar
    /\ has_return_values' = TRUE
    /\ UNCHANGED strat_df
    /\ HistoryFrame

\* build_strategy_return_arrays, `elif check_if_model_expired`: zeros are
\* appended, the model is not run. (The model's age is an input here.)
ServeExpiredPredictions ==
    /\ has_return_values
    /\ predicted_last' = <<[branch |-> "expired", rows |-> {}]>>
    /\ predicted_before' = PredictedSoFar
    /\ UNCHANGED <<strat_df, has_return_values>>
    /\ HistoryFrame

\* build_strategy_return_arrays, `else`: the model is run on
\* dataframe.iloc[-self.CONV_WIDTH:] and the result is appended.
ServeRecentPredictions ==
    /\ has_return_values
    /\ predicted_last' =
          <<[branch |-> "recent",
             rows |-> CandlesOf(LastRows(strat_df, CONV_WIDTH))]>>
    /\ predicted_before' = PredictedSoFar
    /\ UNCHANGED <<strat_df, has_return_values>>
    /\ HistoryFrame

\* A candle closes: the strategy's dataframe rolls on by one row.
NewCandle ==
    /\ strat_df[Len(strat_df)] < MaxCandle
    /\ strat_df' = Append(Tail(strat_df), strat_df[Len(strat_df)] + 1)
    /\ UNCHANGED <<has_return_values, predicted_before, predicted_last>>
    /\ HistoryFrame

HistoryNext ==
    \/ ServeFirstPredictions
    \/ ServeExpiredPredictions
    \/ ServeRecentPredictions
    \/ NewCandle

HistorySpec == HistoryInit /\ [][HistoryNext]_vars

\* A call of build_strategy_return_arrays has just returned.
ServeReturns ==
    /\ strat_df' = strat_df
    /\ <<predicted_before, predicted_last>>' # <<predicted_before, predicted_last>>

\* The last CONV_WIDTH candles of the strategy's dataframe.
MostRecentCandles ==
    {strat_df[i] : i \in {j \in DOMAIN strat_df : j > Len(strat_df) - CONV_WIDTH}}

\* C33 as stated: the whole table is predicted on the first call only; a
\* later call with a model that is not expired predicts the most recent
\* CONV_WIDTH rows only, and no row predicted in an earlier call is
\* predicted again.
C33_NoRowPredictedTwice ==
    [][ServeReturns =>
          /\ (predicted_last'[1].branch = "first") <=> ~has_return_values
          /\ predicted_last'[1].branch = "recent" =>
                /\ predicted_last'[1].rows = MostRecentCandles
                /\ predicted_last'[1].rows \cap predicted_before' = {}]_vars

\* C33, amended: the whole table is predicted on the first call only; a
\* later call with a model that is not expired predicts exactly the most
\* recent CONV_WIDTH rows, so that no older row is predicted again, while
\* those of the CONV_WIDTH rows an earlier call had predicted already are
\* predicted again.
C33_OnlyMostRecentRowsPredictedAgain ==
    [][ServeReturns =>
          /\ (predicted_last'[1].branch = "first") <=> ~has_return_values
          /\ predicted_last'[1].branch = "recent" =>
                /\ predicted_last'[1].rows = MostRecentCandles
                /\ \A c \in CandlesOf(strat_df) \ MostRecentCandles :
                      c \notin predicted_last'[1].rows]_vars

\* One candle has closed since a call that predicted the table's two last
\* rows; the call after it has predicted the new row and, again, the row
\* before it.
C33_Witness ==
    /\ Len(strat_df) = 3
    /\ predicted_last # <<>>
    /\ predicted_last[1].branch = "recent"
    /\ predicted_last[1].rows \cap predicted_before # {}
    /\ predicted_last[1].rows \ predicted_before # {}

-----------------------------------------------------------------------------
(* create_fulltimerange *)

\* Latest start of the backtest range, in days after Jan01.
MaxStartDay == 1

\* Longest backtest range, in days.
MaxRangeDays == 31

\* Largest period handed to create_fulltimerange, in days.
MaxPeriodDays == 30

\* backtest_period_days values: [isint] tells whether the Python object is
\* an int, [val] is its value (for a float, val + 0.5).
PeriodDays ==
    [isint : {TRUE}, val : -1..MaxPeriodDays] \cup [isint : {FALSE}, val : {0, 1}]

\* TimeRange.parse_timerange of "YYYYMMDD-YYYYMMDD" or "YYYYMMDD-": dates
\* are days since 1970-01-01, at 00:00 UTC; a side left out is 0.
ParseTimerange(str) ==
    [startts |-> IF str.start = <<>> THEN 0 ELSE Day(str.start[1]),
     stopts |-> IF str.stop = <<>> THEN 0 ELSE Day(str.stop[1])]

\* TimeRange.timerange_str: each side that is set, as its date.
TimerangeStr(timerange) ==
    [start |-> IF timerange.startts = 0 THEN <<>>
               ELSE <<timerange.startts \div SECONDS_IN_DAY>>,
     stop |-> IF timerange.stopts = 0 THEN <<>>
              ELSE <<timerange.stopts \div SECONDS_IN_DAY>>]

\* 20220101
Jan01Date == Jan01 \div SECONDS_IN_DAY

\* The strings the configuration gives as backtest_tr.
BacktestTrs ==
    UNION {{[start |-> <<Jan01Date + a>>, stop |-> stop] :
               stop \in {<<>>} \cup {<<Jan01Date + a + n>> : n \in 1..MaxRangeDays}} :
           a \in 0..MaxStartDay}

FullStart_Unchanged(timerange, days) == timerange.startts

\* backtest_timerange.startts - backtest_period_days * SECONDS_IN_DAY
FullStart(timerange, days) == timerange.startts - days * SECONDS_IN_DAY

\* The exception create_fulltimerange raises for its arguments, if any.
FulltimerangeException(args) ==
    IF ~args.backtest_period_days.isint
        THEN <<"backtest_period_days must be an integer">>
    ELSE IF args.backtest_period_days.val < 0
        THEN <<"backtest_period_days must be positive">>
    ELSE IF ParseTimerange(args.backtest_tr).stopts = 0
        THEN <<"FreqAI backtesting does not allow open ended timeranges.">>
    ELSE <<>>

FulltimerangeInit ==
    /\ SplitIdle /\ PredIdle
    /\ ExpIdle /\ DkIdle /\ DiIdle /\ NormIdle /\ FfIdle
    /\ BtIdle /\ ReloadIdle /\ LiveIdle
    /\ RetrainIdle /\ HistIdle /\ CtxIdle /\ StageIdle
    /\ \E str \in BacktestTrs, days \in PeriodDays :
          fulltimerange_args =
             <<[backtest_tr |-> str, backtest_period_days |-> days]>>
    /\ fulltimerange_result = <<>>

\* create_fulltimerange(backtest_tr, backtest_period_days)
CreateFulltimerange ==
    /\ fulltimerange_args # <<>>
    /\ fulltimerange_result = <<>>
    /\ LET args == fulltimerange_args[1]
           backtest_timerange == ParseTimerange(args.backtest_tr)
       IN  fulltimerange_result' =
              IF FulltimerangeException(args) # <<>>
              THEN <<[OperationalException |-> FulltimerangeException(args),
                      full_timerange |-> <<>>]>>
              ELSE <<[OperationalException |-> <<>>,
                      full_timerange |->
                         <<TimerangeStr(
                              [backtest_timerange EXCEPT !.startts =
                                  FullStart(backtest_timerange,
                                            args.backtest_period_days.val)])>>]>>
    /\ UNCHANGED <<splitVars, predVars, expVars, dkVars, diVars, normVars,
                   ffVars, btVars, reloadVars, liveVars, retrainVars,
                   histVars, ctxVars, stageVars, fulltimerange_args>>

FulltimerangeSpec == FulltimerangeInit /\ [][CreateFulltimerange]_vars

\* The call has returned a range.
FulltimerangeReturned ==
    /\ fulltimerange_result # <<>>
    /\ fulltimerange_result[1].full_timerange # <<>>

\* C37: the range create_fulltimerange returns stops where the given range
\* stops and starts exactly days * 86400 seconds before the given start.
C37_FullRangeStartsDaysEarlier ==
    FulltimerangeReturned =>
       LET given == ParseTimerange(fulltimerange_args[1].backtest_tr)
           full == ParseTimerange(fulltimerange_result[1].full_timerange[1])
       IN  /\ full.stopts = given.stopts
           /\ full.startts
                 = given.startts
                      - fulltimerange_args[1].backtest_period_days.val * 86400

\* The test's case: 20220101-20220201 with 30 days gives 20211202-20220201.
C37_Witness ==
    /\ FulltimerangeReturned
    /\ fulltimerange_args[1].backtest_tr =
          [start |-> <<Jan01Date>>, stop |-> <<Jan01Date + 31>>]
    /\ fulltimerange_args[1].backtest_period_days = [isint |-> TRUE, val |-> 30]
    /\ fulltimerange_result[1].full_timerange[1] =
          [start |-> <<Jan01Date - 30>>, stop |-> <<Jan01Date + 31>>]

\* C38: create_fulltimerange raises and returns no range when the period is
\* not an integer, when it is not positive, or when the given range has no
\* stop.
C38_RaisesOnBadPeriodOrOpenRange ==
    fulltimerange_result # <<>> =>
       LET args == fulltimerange_args[1]
       IN  (\/ ~args.backtest_period_days.isint
            \/ args.backtest_period_days.val <= 0
            \/ args.backtest_tr.stop = <<>>)
              => /\ fulltimerange_result[1].OperationalException # <<>>
                 /\ fulltimerange_result[1].full_timerange = <<>>

\* The call raises exactly when the period is not an integer, is negative,
\* or the range has no stop; a period of 0 days is accepted and gives the
\* range back as it came.
RaisesExactlyOnNonIntNegativeOrOpen ==
    fulltimerange_result # <<>> =>
       LET args == fulltimerange_args[1]
       IN  /\ (fulltimerange_result[1].OperationalException # <<>>)
                 <=> \/ ~args.backtest_period_days.isint
                     \/ args.backtest_period_days.val < 0
                     \/ args.backtest_tr.stop = <<>>
           /\ (fulltimerange_result[1].OperationalException # <<>>)
                 <=> (fulltimerange_result[1].full_timerange = <<>>)
           /\ (args.backtest_period_days = [isint |-> TRUE, val |-> 0]
               /\ args.backtest_tr.stop # <<>>)
                 => fulltimerange_result[1].full_timerange = <<args.backtest_tr>>

-----------------------------------------------------------------------------
(* The kitchen from one train-or-predict cycle to the next *)

\* Cycles followed.
MaxCycles == 3

\* Most windows of one start_backtesting call.
MaxCycleWindows == 2

\* Attributes of the kitchen a cycle writes.
KitchenAttributes ==
    {"data", "data_dictionary", "svm_model", "training_features_list",
     "do_predict"}

\* FreqaiDataKitchen.__init__: every attribute at its initial value (0: no
\* cycle has written it).
FreqaiDataKitchen == [a \in KitchenAttributes |-> 0]

\* start_backtesting, at the top of the loop: `dk.data = {}`
CleanBetweenWindows(dk) == [dk EXCEPT !["data"] = 0]

ContextInit ==
    /\ SplitIdle /\ PredIdle
    /\ ExpIdle /\ DkIdle /\ DiIdle /\ NormIdle /\ FfIdle
    /\ BtIdle /\ ReloadIdle /\ LiveIdle
    /\ RetrainIdle /\ FtrIdle /\ HistIdle /\ StageIdle
    /\ kitchen = <<>>
    /\ cycle_no = 0
    /\ cycle_pc \in [mode : {"live", "backtest"}, at : {"idle"}]
    /\ windows_left = 0

ContextFrame ==
    UNCHANGED <<splitVars, predVars, expVars, dkVars, diVars, normVars, ffVars,
                btVars, reloadVars, liveVars, retrainVars, ftrVars, histVars,
                stageVars>>

\* start in live mode: self.dk = FreqaiDataKitchen(...), then start_live
BeginStartLive ==
    /\ cycle_pc = [mode |-> "live", at |-> "idle"]
    /\ cycle_no < MaxCycles
    /\ kitchen' = <<FreqaiDataKitchen>>
    /\ cycle_no' = cycle_no + 1
    /\ cycle_pc' = [cycle_pc EXCEPT !.at = "start_live"]
    /\ UNCHANGED windows_left
    /\ ContextFrame

\* start_scanning, a pair with priority 1: dk = FreqaiDataKitchen(...)
BeginScan ==
    /\ cycle_pc = [mode |-> "live", at |-> "idle"]
    /\ cycle_no < MaxCycles
    /\ kitchen' = <<FreqaiDataKitchen>>
    /\ cycle_no' = cycle_no + 1
    /\ cycle_pc' = [cycle_pc EXCEPT !.at = "start_scanning"]
    /\ UNCHANGED windows_left
    /\ ContextFrame

\* start in backtest mode: self.dk = FreqaiDataKitchen(...), then the first
\* pass of the loop of start_backtesting
BeginStartBacktesting ==
    /\ cycle_pc = [mode |-> "backtest", at |-> "idle"]
    /\ windows_left = 0
    /\ cycle_no < MaxCycles
    /\ kitchen' = <<CleanBetweenWindows(FreqaiDataKitchen)>>
    /\ cycle_no' = cycle_no + 1
    /\ cycle_pc' = [cycle_pc EXCEPT !.at = "first_window"]
    /\ windows_left' \in 0..(MaxCycleWindows - 1)
    /\ ContextFrame

\* The next pass of the loop of start_backtesting, with the kitchen of the
\* pass before.
BeginNextWindow ==
    /\ cycle_pc = [mode |-> "backtest", at |-> "idle"]
    /\ windows_left > 0
    /\ cycle_no < MaxCycles
    /\ kitchen' = <<CleanBetweenWindows(kitchen[1])>>
    /\ cycle_no' = cycle_no + 1
    /\ cycle_pc' = [cycle_pc EXCEPT !.at = "next_window"]
    /\ windows_left' = windows_left - 1
    /\ ContextFrame

\* The rest of the cycle: training, loading and predicting write some of
\* the attributes (which ones depends on the options and on the path).
RunCycle ==
    /\ cycle_pc.at # "idle"
    /\ \E written \in SUBSET KitchenAttributes :
          /\ "data_dictionary" \in written
          /\ kitchen' = <<[a \in KitchenAttributes |->
                             IF a \in written THEN cycle_no ELSE kitchen[1][a]]>>
    /\ cycle_pc' = [cycle_pc EXCEPT !.at = "idle"]
    /\ UNCHANGED <<cycle_no, windows_left>>
    /\ ContextFrame

ContextNext ==
    \/ BeginStartLive
    \/ BeginScan
    \/ BeginStartBacktesting
    \/ BeginNextWindow
    \/ RunCycle

ContextSpec == ContextInit /\ [][ContextNext]_vars

\* Attributes of the kitchen in use that an earlier cycle wrote.
LeftByEarlierCycle ==
    {a \in KitchenAttributes : kitchen[1][a] # 0 /\ kitchen[1][a] < cycle_no}

\* C34: when a cycle begins, its kitchen holds nothing an earlier cycle
\* wrote: in start_live, in the scanning loop, and in every window of a
\* backtest.
C34_FreshKitchenEveryCycle ==
    cycle_pc.at # "idle" => LeftByEarlierCycle = {}

\* In live mode, in the scanning loop and in the first window of a
\* start_backtesting call the kitchen is new; in a later window it is the
\* kitchen of the window before, of which only dk.data has been emptied.
FreshKitchenExceptLaterWindows ==
    /\ cycle_pc.at \in {"start_live", "start_scanning", "first_window"}
          => LeftByEarlierCycle = {}
    /\ cycle_pc.at = "next_window" =>
          /\ kitchen[1]["data"] = 0
          /\ "data_dictionary" \in LeftByEarlierCycle

\* ---------------------------------------------------------------------
\* One predict call of a model class (BasePyTorchClassifier.predict),
\* statement by statement.  The features are followed by the columns they
\* hold and by their scale; `calls` is the list of the kitchen methods and
\* of the model invocation, in the order they ran.
\* ---------------------------------------------------------------------

\* The statements of predict, in the order of the source.
PredictStatements ==
    <<"class_names", "find_features", "filter_features",
      "normalize_data_from_metadata", "prediction_features",
      "data_cleaning_predict", "pca_transform",
      "use_SVM_to_remove_outliers", "check_if_pred_in_training_spaces",
      "model", "return">>

NormalizedFromMetadata_Raw(df) == df

\* normalize_data_from_metadata(df): every column is scaled with the stored
\* minimum and maximum of the training data
NormalizedFromMetadata(df) == [df EXCEPT !.scale = "normalized"]

\* filter_features(unfiltered_df, training_features_list,
\* training_filter=False): the columns of the training features list
FilteredFeatures(df) == [df EXCEPT !.columns = "training_features_list"]

\* pca_transform: the components of the fitted transform, then normalised
\* with the stored bounds of the training components
PcaTransformed(df) ==
    NormalizedFromMetadata([columns |-> "components", scale |-> "raw"])

\* self.data_cleaning_predict(dk) is called with the kitchen alone, while
\* IFreqaiModel.data_cleaning_predict takes the kitchen and a dataframe;
\* the class between the two decides whether the call binds.
PredictCycleInit ==
    /\ SplitIdle /\ PredIdle
    /\ ExpIdle /\ DkIdle /\ DiIdle /\ NormIdle /\ FfIdle
    /\ BtIdle /\ ReloadIdle /\ LiveIdle
    /\ RetrainIdle /\ FtrIdle /\ HistIdle /\ CtxIdle
    /\ fit_input = <<>>
    /\ fit_outcome = <<>>
    /\ \E class_names, use_pca, use_svm, use_di, binds \in BOOLEAN :
          predict_cycle =
             [class_names |-> class_names,
              principal_component_analysis |-> use_pca,
              use_SVM_to_remove_outliers |-> use_svm,
              DI_threshold |-> use_di,
              binds |-> binds,
              at |-> 1,
              raised |-> "",
              training_features_list |-> FALSE,
              filtered_df |-> [columns |-> "all", scale |-> "raw"],
              prediction_features |-> <<>>,
              calls |-> <<>>,
              x |-> <<>>]

PredictCycleFrame ==
    UNCHANGED <<splitVars, predVars, expVars, dkVars, diVars, normVars, ffVars,
                btVars, reloadVars, liveVars, retrainVars, ftrVars, histVars,
                ctxVars, fit_input, fit_outcome>>

\* The statement predict is at.
AtStatement(name) ==
    /\ predict_cycle.raised = ""
    /\ predict_cycle.at <= Len(PredictStatements)
    /\ PredictStatements[predict_cycle.at] = name

\* The next statement is reached.
NextStatement(pcy) == [pcy EXCEPT !.at = @ + 1]

\* A kitchen method or the model has run.
Called(pcy, name) == [pcy EXCEPT !.calls = Append(@, name)]

\* class_names = self.model.model_meta_data.get("class_names", None);
\* raise ValueError when there are none
CheckClassNames ==
    /\ AtStatement("class_names")
    /\ predict_cycle' =
          IF predict_cycle.class_names
              THEN NextStatement(predict_cycle)
              ELSE [predict_cycle EXCEPT !.raised = "ValueError"]
    /\ PredictCycleFrame

\* dk.find_features(unfiltered_df)
PredictFindFeatures ==
    /\ AtStatement("find_features")
    /\ predict_cycle' =
          NextStatement(Called([predict_cycle EXCEPT
                             !.training_features_list = TRUE],
                         "find_features"))
    /\ PredictCycleFrame

\* filtered_df, _ = dk.filter_features(unfiltered_df,
\*     dk.training_features_list, training_filter=False)
PredictFilterFeatures ==
    /\ AtStatement("filter_features")
    /\ predict_cycle' =
          NextStatement(Called([predict_cycle EXCEPT
                             !.filtered_df = FilteredFeatures(@)],
                         "filter_features"))
    /\ PredictCycleFrame

\* filtered_df = dk.normalize_data_from_metadata(filtered_df)
PredictNormalize ==
    /\ AtStatement("normalize_data_from_metadata")
    /\ predict_cycle' =
          NextStatement(Called([predict_cycle EXCEPT
                             !.filtered_df = NormalizedFromMetadata(@)],
                         "normalize_data_from_metadata"))
    /\ PredictCycleFrame

\* dk.data_dictionary["prediction_features"] = filtered_df
StorePredictionFeatures ==
    /\ AtStatement("prediction_features")
    /\ predict_cycle' =
          NextStatement([predict_cycle EXCEPT
                      !.prediction_features = <<predict_cycle.filtered_df>>])
    /\ PredictCycleFrame

\* self.data_cleaning_predict(dk): the call binds, or raises TypeError
EnterDataCleaningPredict ==
    /\ AtStatement("data_cleaning_predict")
    /\ predict_cycle' =
          IF predict_cycle.binds
              THEN NextStatement(predict_cycle)
              ELSE [predict_cycle EXCEPT !.raised = "TypeError"]
    /\ PredictCycleFrame

\* if principal_component_analysis: dk.pca_transform(...)
PredictPcaTransform ==
    /\ AtStatement("pca_transform")
    /\ predict_cycle' =
          IF predict_cycle.principal_component_analysis
              THEN NextStatement(Called(
                      [predict_cycle EXCEPT
                          !.prediction_features = <<PcaTransformed(@[1])>>],
                      "pca_transform"))
              ELSE NextStatement(predict_cycle)
    /\ PredictCycleFrame

\* if use_SVM_to_remove_outliers: dk.use_SVM_to_remove_outliers(predict=True)
PredictUseSVM ==
    /\ AtStatement("use_SVM_to_remove_outliers")
    /\ predict_cycle' =
          IF predict_cycle.use_SVM_to_remove_outliers
              THEN NextStatement(Called(predict_cycle,
                                  "use_SVM_to_remove_outliers"))
              ELSE NextStatement(predict_cycle)
    /\ PredictCycleFrame

\* if DI_threshold: dk.check_if_pred_in_training_spaces()
PredictCheckDI ==
    /\ AtStatement("check_if_pred_in_training_spaces")
    /\ predict_cycle' =
          IF predict_cycle.DI_threshold
              THEN NextStatement(Called(predict_cycle,
                                  "check_if_pred_in_training_spaces"))
              ELSE NextStatement(predict_cycle)
    /\ PredictCycleFrame

\* x = convert_x(dk.data_dictionary["prediction_features"]);
\* logits = self.model.model(x)
InvokeModel ==
    /\ AtStatement("model")
    /\ predict_cycle' =
          NextStatement(Called([predict_cycle EXCEPT
                             !.x = predict_cycle.prediction_features],
                         "model"))
    /\ PredictCycleFrame

\* return (pred_df, dk.do_predict)
PredictReturn ==
    /\ AtStatement("return")
    /\ predict_cycle' = NextStatement(predict_cycle)
    /\ PredictCycleFrame

PredictCycleNext ==
    \/ CheckClassNames
    \/ PredictFindFeatures
    \/ PredictFilterFeatures
    \/ PredictNormalize
    \/ StorePredictionFeatures
    \/ EnterDataCleaningPredict
    \/ PredictPcaTransform
    \/ PredictUseSVM
    \/ PredictCheckDI
    \/ InvokeModel
    \/ PredictReturn

PredictCycleSpec == PredictCycleInit /\ [][PredictCycleNext]_vars

\* The place of a call in the order collect, filter, normalise, apply-mode
\* outlier stages, model.
CallRank(name) ==
    CASE name = "find_features" -> 1
      [] name = "filter_features" -> 2
      [] name = "normalize_data_from_metadata" -> 3
      [] name = "pca_transform" -> 4
      [] name = "use_SVM_to_remove_outliers" -> 5
      [] name = "check_if_pred_in_training_spaces" -> 6
      [] name = "model" -> 7

\* Every call made so far came after the calls of the earlier states.
CallsInOrder ==
    \A i, j \in DOMAIN predict_cycle.calls :
        i < j => CallRank(predict_cycle.calls[i])
                    < CallRank(predict_cycle.calls[j])

\* The calls made before the model, when the model has been invoked.
HasCalled(name) ==
    \E i \in DOMAIN predict_cycle.calls : predict_cycle.calls[i] = name

\* The apply-mode outlier stages the configuration turns on have all run.
EnabledStagesRan ==
    /\ predict_cycle.principal_component_analysis => HasCalled("pca_transform")
    /\ predict_cycle.use_SVM_to_remove_outliers
          => HasCalled("use_SVM_to_remove_outliers")
    /\ predict_cycle.DI_threshold
          => HasCalled("check_if_pred_in_training_spaces")

\* C35: in a prediction cycle the calls are made in the order collect,
\* filter, normalise with the stored bounds, apply-mode outlier stages,
\* model; when the model is invoked none of the earlier states was skipped,
\* and what it is invoked on is the normalised features.
C35_PredictionCycleInOrder ==
    /\ CallsInOrder
    /\ HasCalled("model") =>
          /\ HasCalled("find_features")
          /\ HasCalled("filter_features")
          /\ HasCalled("normalize_data_from_metadata")
          /\ EnabledStagesRan
          /\ predict_cycle.training_features_list
          /\ predict_cycle.x # <<>>
          /\ predict_cycle.x[1].scale = "normalized"
          /\ predict_cycle.x[1].columns
                = (IF predict_cycle.principal_component_analysis
                      THEN "components" ELSE "training_features_list")

\* A cycle with every apply-mode stage turned on has invoked the model.
C35_Witness ==
    /\ HasCalled("model")
    /\ HasCalled("pca_transform")
    /\ HasCalled("use_SVM_to_remove_outliers")
    /\ HasCalled("check_if_pred_in_training_spaces")

\* ---------------------------------------------------------------------
\* The fit-mode outlier stages on small training tables, the degenerate
\* ones (no row, or every row the same) included.  A row is one feature
\* value.  What scikit-learn does with a table it cannot fit is not in the
\* repository: where it decides the outcome, both outcomes are taken.
\* ---------------------------------------------------------------------

MaxFitRows == 8

FitFeatureValues == {0, 1}

\* The tables a fit can be handed: up to MaxFitRows rows, or none.
TrainFeatureTables == {<<>>} \cup SeqsUpTo(FitFeatureValues, MaxFitRows)

\* Zero rows, or all rows identical.
Degenerate(rows) == \A i, j \in DOMAIN rows : rows[i] = rows[j]

\* The distance of two rows.
Distance(a, b) == IF a >= b THEN a - b ELSE b - a

RECURSIVE SumOf(_)
SumOf(seq) == IF seq = <<>> THEN 0 ELSE Head(seq) + SumOf(Tail(seq))

\* The vector as a sequence of values.
AsArray(vector) == vector \o <<>>

\* np.sort of a vector: the value at place r has fewer than r values below
\* it and at least r values not above it
SortAscending(vector) ==
    LET seq == AsArray(vector)
    IN  AsArray([r \in DOMAIN seq |->
            CHOOSE v \in {seq[i] : i \in DOMAIN seq} :
                /\ Cardinality({i \in DOMAIN seq : seq[i] < v}) < r
                /\ Cardinality({i \in DOMAIN seq : seq[i] <= v}) >= r])

\* neighbors_fit.kneighbors(train_features): for every row the distances to
\* its k nearest rows of the table, itself among them
KNeighbors(rows, k) ==
    AsArray([i \in DOMAIN rows |->
                SubSeq(SortAscending([j \in DOMAIN rows |->
                                         Distance(rows[i], rows[j])]), 1, k)])

\* np.sort(distances, axis=0).mean(axis=1), each mean kept as its sum over
\* the k columns
SortedMeanDistances(rows, k) ==
    LET kn == KNeighbors(rows, k)
        columns == AsArray([c \in 1..k |->
                       SortAscending([i \in DOMAIN rows |-> kn[i][c]])])
    IN  AsArray([r \in DOMAIN rows |->
                    SumOf([c \in 1..k |-> columns[c][r]])])

\* normalise_distances divides by distances.max() - distances.min(): with
\* all distances equal every entry is NaN, no deflection equals the NaN
\* maximum and np.where(...)[0][0] has nothing to index.
ElbowRaises(distances) ==
    \A i \in DOMAIN distances : distances[i] = distances[1]

OutlierPercentage_NoProtection(dropped, prot) == 0

\* get_outlier_percentage(dropped_pts), times len(dropped_pts): 0/0 is NaN,
\* which is not >= the protection percentage, so 0.0 is returned
OutlierPercentage(dropped, prot) ==
    IF Len(dropped) = 0 THEN 0
    ELSE IF SumOf(dropped) * 100 >= prot * Len(dropped)
            THEN SumOf(dropped) * 100
            ELSE 0

\* What a detector says of every row: rows that are the same get the same
\* verdict.
RowVerdicts(rows, values) ==
    {[i \in DOMAIN rows |-> f[rows[i]]] : f \in [FitFeatureValues -> values]}

\* The rows a mask keeps.
KeptRows(rows, verdict, kept) ==
    SelectRows(rows, [i \in DOMAIN rows |-> verdict[i] = kept])

RowsButNoise(rows, labels) ==
    SelectRows(rows, [i \in DOMAIN rows |-> labels[i] # -1])

\* What a stage leaves behind: the exception it raised (if any), whether
\* its fitted state is kept (svm_model, data['DBSCAN_eps'] # 0,
\* data['avg_mean_dist']), and the training features.
FitOutcome(stage, raised, fitted, rows, dist) ==
    [stage |-> stage, raised |-> raised, fitted |-> fitted,
     train_features |-> rows, avg_mean_dist |-> dist]

DegenerateFitInit ==
    /\ SplitIdle /\ PredIdle
    /\ ExpIdle /\ DkIdle /\ DiIdle /\ NormIdle /\ FfIdle
    /\ BtIdle /\ ReloadIdle /\ LiveIdle
    /\ RetrainIdle /\ FtrIdle /\ HistIdle /\ CtxIdle
    /\ predict_cycle = <<>>
    /\ \E rows \in TrainFeatureTables, keras \in BOOLEAN,
          prot \in ProtectionChoices :
          fit_input = [train_features |-> rows, keras |-> keras,
                       outlier_protection_percentage |-> prot]
    /\ fit_outcome = <<>>

DegenerateFitFrame ==
    UNCHANGED <<splitVars, predVars, expVars, dkVars, diVars, normVars, ffVars,
                btVars, reloadVars, liveVars, retrainVars, ftrVars, histVars,
                ctxVars, predict_cycle, fit_input>>

\* use_SVM_to_remove_outliers(predict=False)
FitSVM ==
    /\ fit_outcome = <<>>
    /\ LET rows == fit_input.train_features
           stage == "use_SVM_to_remove_outliers"
       IN  IF fit_input.keras
              THEN fit_outcome' = <<FitOutcome(stage, "", FALSE, rows, <<>>)>>
              ELSE \/ /\ rows = <<>>
                      /\ fit_outcome' =
                            <<FitOutcome(stage, "ValueError", FALSE, rows, <<>>)>>
                   \/ \E y_pred \in RowVerdicts(rows, {1, -1}) :
                         LET dropped == [i \in DOMAIN rows |->
                                            IF y_pred[i] = -1 THEN 1 ELSE 0]
                         IN  fit_outcome' =
                               IF OutlierPercentage(dropped,
                                     fit_input.outlier_protection_percentage) # 0
                                  THEN <<FitOutcome(stage, "", FALSE, rows, <<>>)>>
                                  ELSE <<FitOutcome(stage, "", TRUE,
                                            KeptRows(rows, y_pred, 1), <<>>)>>
    /\ DegenerateFitFrame

\* use_DBSCAN_to_remove_outliers(predict=False)
FitDBSCAN ==
    /\ fit_outcome = <<>>
    /\ LET rows == fit_input.train_features
           stage == "use_DBSCAN_to_remove_outliers"
           MinPts_ == PyInt(Len(rows), 4)
           distances == SortedMeanDistances(rows, MinPts_)
       IN  IF rows = <<>>
              THEN fit_outcome' =
                      <<FitOutcome(stage, "ValueError", FALSE, rows, <<>>)>>
           ELSE IF MinPts_ = 0
              THEN \E exc \in {"ValueError", "IndexError"} :
                      fit_outcome' = <<FitOutcome(stage, exc, FALSE, rows, <<>>)>>
           ELSE IF ElbowRaises(distances)
              THEN fit_outcome' =
                      <<FitOutcome(stage, "IndexError", FALSE, rows, <<>>)>>
           ELSE \E labels \in RowVerdicts(rows, {-1, 0}) :
                   LET dropped == [i \in DOMAIN rows |->
                                      IF labels[i] = -1 THEN 1 ELSE 0]
                   IN  fit_outcome' =
                         IF OutlierPercentage(dropped,
                               fit_input.outlier_protection_percentage) # 0
                            THEN <<FitOutcome(stage, "", FALSE, rows, <<>>)>>
                            ELSE <<FitOutcome(stage, "", TRUE,
                                      RowsButNoise(rows, labels), <<>>)>>
    /\ DegenerateFitFrame

\* The distances of every row to every other row, the diagonal left out.
OffDiagonal(rows) ==
    {p \in (DOMAIN rows) \X (DOMAIN rows) : p[1] # p[2]}

RECURSIVE SumOfPairs(_, _)
SumOfPairs(rows, pairs) ==
    IF pairs = {} THEN 0
    ELSE LET p == CHOOSE q \in pairs : TRUE
         IN  Distance(rows[p[1]], rows[p[2]]) + SumOfPairs(rows, pairs \ {p})

\* compute_distances(): the mean of the off-diagonal pairwise distances, as
\* sum and count; the mean of nothing (count 0) is NaN
AvgMeanDist(rows) ==
    [num |-> SumOfPairs(rows, OffDiagonal(rows)),
     den |-> Cardinality(OffDiagonal(rows))]

\* dk.data["avg_mean_dist"] = dk.compute_distances()
FitDI ==
    /\ fit_outcome = <<>>
    /\ LET rows == fit_input.train_features
           stage == "compute_distances"
       IN  \/ /\ rows = <<>>
              /\ fit_outcome' =
                    <<FitOutcome(stage, "ValueError", FALSE, rows, <<>>)>>
           \/ fit_outcome' =
                 <<FitOutcome(stage, "", TRUE, rows, <<AvgMeanDist(rows)>>)>>
    /\ DegenerateFitFrame

DegenerateFitNext == FitSVM \/ FitDBSCAN \/ FitDI

DegenerateFitSpec == DegenerateFitInit /\ [][DegenerateFitNext]_vars

\* A stage has run on a degenerate table.
RanOnDegenerate ==
    /\ fit_outcome # <<>>
    /\ Degenerate(fit_input.train_features)

\* The stage raised nothing, kept no fitted state and left the table alone.
StageSkipped ==
    /\ fit_outcome[1].raised = ""
    /\ ~fit_outcome[1].fitted
    /\ fit_outcome[1].train_features = fit_input.train_features

\* C36: a fit-mode outlier stage run on degenerate training data (no row,
\* or all rows identical) does not raise: it is skipped and leaves the
\* training table unchanged.
C36_DegenerateFitIsSkipped == RanOnDegenerate => StageSkipped

\* What the stages do on a degenerate table instead: the DBSCAN fit always
\* raises; the distance fit, when it returns, stores a distance that is 0 or
\* NaN; the SVM fit is skipped only for a Keras model or when every row is
\* called an outlier.
DegenerateFitOutcomes ==
    RanOnDegenerate =>
        LET out == fit_outcome[1]
        IN  /\ out.stage = "use_DBSCAN_to_remove_outliers" => out.raised # ""
            /\ (out.stage = "compute_distances" /\ out.raised = "")
                  => /\ out.fitted
                     /\ out.avg_mean_dist[1].num = 0
            /\ out.raised = "" => out.train_features = fit_input.train_features

\* The DBSCAN fit has gone through on a table that is not degenerate.
DBSCANFitRan ==
    /\ fit_outcome # <<>>
    /\ fit_outcome[1].stage = "use_DBSCAN_to_remove_outliers"
    /\ fit_outcome[1].fitted

\* C39: the trained_timestamp a start_live call judges expiry with belongs
\* to the model the call loaded: no call that has read the timestamp of a
\* model ends having loaded a model trained and saved after the read.
C39_ExpiryJudgedOnLoadedModel ==
    ~(fg.pc = "idle" /\ fg.ts_of # "no model" /\ fg.newer_saved)

\* A model saved after the timestamp was read comes from a retrain of the
\* call's own pair that ended while the call stood before load_data, and
\* only an instance that does not follow has such retrains.
NewerModelOnlyFromOwnRetrain ==
    fg.newer_saved =>
        /\ ~follow_mode
        /\ pair_dict[fg.pair].trained
        /\ scanning

====
